---- MODULE Spec2Model ----
(***************************************************************************)
(* NarrativeScope: the signal aggregator (aggregator.ts) and the scoring,  *)
(* stage and confidence functions it calls.                                *)
(*                                                                         *)
(* JavaScript numbers are modelled as exact rationals <<n, d>> (d > 0, in  *)
(* lowest terms); Math.log2 is modelled in fixed point, rounded down to    *)
(* LogFracBits fractional bits.  Math.round is round-half-up.              *)
(***************************************************************************)
EXTENDS Integers, Sequences, FiniteSets, TLC

VARIABLES
    \* ---- inputs and results of one evaluation of the scoring functions
    social,        \* the social snapshot handed to the three functions
    developer,     \* the developer snapshot handed to the three functions
    fpc,           \* position in aggregateSignals lines 132-138
    signalScore,   \* result of computeSignalScore
    stage,         \* result of determineStage
    confidence,    \* result of computeConfidence
    \* ---- aggregateSignals runs
    xResult,       \* XScanResult.topicClusters
    ghResult,      \* GHScanResult.topicClusters
    now,           \* wall clock, in ticks
    results,       \* the AggregatorResult of every finished run, in order
    \* ---- one run of the runner (run.ts)
    keyFile,       \* whether agent/vault/anthropic/api-key.txt exists
    serve,         \* whether --serve was given
    server,        \* whether the HTTP server has been started
    exitCode,      \* the exit code of the process, -1 while it runs
    rpc,           \* position of the runner
    report,        \* the AggregatorResult main() works on
    synthIdx,      \* index of the narrative synthesizeAll is at
    synthResults,  \* the Map synthesizeAll fills, as a function of names
    responses,     \* what the API answered for each narrative so far
    files,         \* the output files written, as a function of names
    \* ---- one call of generateBuildIdeas
    ideaName,      \* the narrative name
    ideaSocialTerms, \* the key terms of the social cluster
    ideaDevTerms,  \* the key terms of the developer cluster
    ideaOut,       \* the value returned
    ipc,           \* position: "call" or "done"
    \* ---- extractKeyTerms on the items of one cluster
    termStream,    \* "x" (x-scanner) or "gh" (github-scanner)
    termItems,     \* the signals or repos of the cluster, in order
    termOut,       \* the list returned
    termAgain,     \* the list returned by a second call on the same items
    tpc,           \* position: "first", "second" or "done"
    \* ---- the fetch loop of one scanner, and what follows it
    scanStream,    \* "x" (scanX) or "gh" (scanGitHub)
    ghToken,       \* whether scanGitHub was given a token
    queryIdx,      \* index in SCAN_QUERIES of the next query
    issued,        \* the outcome of every query issued so far, in order
    collected,     \* allSignals / allRepos
    scanOut,       \* the scan result: items and topic clusters
    spc            \* position: "loop", "cluster" or "done"

fnVars  == <<social, developer, fpc, signalScore, stage, confidence>>
aggVars == <<xResult, ghResult, now, results>>
runVars ==
    <<keyFile, serve, server, exitCode, rpc, report, synthIdx, synthResults,
      responses, files>>
ideaVars == <<ideaName, ideaSocialTerms, ideaDevTerms, ideaOut, ipc>>
termVars == <<termStream, termItems, termOut, termAgain, tpc>>
scanVars == <<scanStream, ghToken, queryIdx, issued, collected, scanOut, spc>>

extVars == <<runVars, ideaVars, termVars, scanVars>>

vars == <<fnVars, aggVars, extVars>>

\* the runner is not running
RunIdle ==
    /\ keyFile = FALSE
    /\ serve = FALSE
    /\ server = FALSE
    /\ exitCode = -1
    /\ rpc = "idle"
    /\ report = <<>>
    /\ synthIdx = 0
    /\ synthResults = <<>>
    /\ responses = <<>>
    /\ files = <<>>

\* no call of generateBuildIdeas on its own
IdeaIdle ==
    /\ ideaName = ""
    /\ ideaSocialTerms = <<>>
    /\ ideaDevTerms = <<>>
    /\ ideaOut = <<>>
    /\ ipc = "idle"

\* no call of extractKeyTerms on its own
TermIdle ==
    /\ termStream = ""
    /\ termItems = <<>>
    /\ termOut = <<>>
    /\ termAgain = <<>>
    /\ tpc = "idle"

\* no scanner running
ScanIdle ==
    /\ scanStream = ""
    /\ ghToken = FALSE
    /\ queryIdx = 0
    /\ issued = <<>>
    /\ collected = <<>>
    /\ scanOut = <<>>
    /\ spc = "idle"

\* aggregateSignals and the scoring functions not under evaluation
FnIdle ==
    /\ social = <<>>
    /\ developer = <<>>
    /\ fpc = "idle"
    /\ signalScore = -1
    /\ stage = "unset"
    /\ confidence = <<>>

AggIdle ==
    /\ xResult = <<>>
    /\ ghResult = <<>>
    /\ now = 0
    /\ results = <<>>

ExtIdle == RunIdle /\ IdeaIdle /\ TermIdle /\ ScanIdle

(***************************************************************************)
(* Bounds                                                                  *)
(***************************************************************************)
MaxTweetCount == 10
LogFracBits == 7
MaxClock == 2
TicksPerDay == 2
MaxRuns == 2
MaxItems == 3
MaxQueries == 4

(***************************************************************************)
(* Number arithmetic                                                       *)
(***************************************************************************)
RECURSIVE GCD(_, _)
GCD(a, b) == IF b = 0 THEN a ELSE GCD(b, a % b)

Pow2(k) == 2 ^ k

\* the rational n/d in lowest terms (d > 0, n >= 0)
Rat(n, d) ==
    LET g == GCD(n, d) IN <<n \div g, d \div g>>

R(n) == <<n, 1>>

RAdd(x, y) ==
    LET g == GCD(x[2], y[2])
        l == (x[2] \div g) * y[2]
    IN  Rat(x[1] * (l \div x[2]) + y[1] * (l \div y[2]), l)

\* cross-cancel before multiplying
RMul(x, y) ==
    LET g1 == GCD(x[1], y[2])
        g2 == GCD(y[1], x[2])
        a  == IF g1 = 0 THEN 0 ELSE x[1] \div g1
        b  == IF g2 = 0 THEN 0 ELSE y[1] \div g2
        c  == IF g2 = 0 THEN x[2] ELSE x[2] \div g2
        d  == IF g1 = 0 THEN y[2] ELSE y[2] \div g1
    IN  Rat(a * b, c * d)

RLeq(x, y) ==
    LET g == GCD(x[2], y[2])
    IN  x[1] * (y[2] \div g) <= y[1] * (x[2] \div g)

RLt(x, y) == ~RLeq(y, x)

\* Math.min
RMin(x, y) == IF RLeq(x, y) THEN x ELSE y

\* faulty variant: Math.floor written for Math.round
RRound_floor(x) == x[1] \div x[2]

\* Math.round: the integer nearest to x, halves rounded up
RRound(x) ==
    (x[1] \div x[2]) + (IF 2 * (x[1] % x[2]) >= x[2] THEN 1 ELSE 0)

IntMin(a, b) == IF a <= b THEN a ELSE b

\* largest e with 2^e <= x, for a rational x >= 1
RECURSIVE IntLog2(_, _)
IntLog2(x, e) ==
    IF RLt(x, R(Pow2(e + 1))) THEN e ELSE IntLog2(x, e + 1)

MantBits == 14

\* the first k fractional bits of log2(m / 2^MantBits), 1 <= m / 2^MantBits < 2
RECURSIVE FracLog2(_, _)
FracLog2(m, k) ==
    IF k = 0 THEN 0
    ELSE LET sq == (m * m) \div Pow2(MantBits)
         IN  IF sq >= Pow2(MantBits + 1)
             THEN Pow2(k - 1) + FracLog2(sq \div 2, k - 1)
             ELSE FracLog2(sq, k - 1)

\* Math.log2 of a rational x >= 1
Log2(x) ==
    LET e == IntLog2(x, 0)
        m == (x[1] * Pow2(MantBits)) \div (x[2] * Pow2(e))
    IN  Rat(e * Pow2(LogFracBits) + FracLog2(m, LogFracBits), Pow2(LogFracBits))

(***************************************************************************)
(* computeSignalScore                                                      *)
(***************************************************************************)
socialVolume(s) == RMin(RMul(R(s.tweetCount), Rat(5, 2)), R(15))

\* faulty variant: % written for /
socialEngagement_modulo(s) == RMin(R(s.avgEngagement % 60), R(20))

socialEngagement(s) == RMin(Rat(s.avgEngagement, 60), R(20))

diversityRatio(s) ==
    IF s.tweetCount > 0 THEN Rat(s.uniqueAuthors, s.tweetCount) ELSE R(0)

\* faulty variant: the cap of 5 left out
diversityBonus_uncapped(s) == RMul(diversityRatio(s), R(s.uniqueAuthors))

diversityBonus(s) == RMin(RMul(diversityRatio(s), R(s.uniqueAuthors)), R(5))

socialScore(s) ==
    RAdd(RAdd(socialVolume(s), socialEngagement(s)), diversityBonus(s))

devVolume(d) == RMin(R(d.repoCount * 2), R(15))

devQuality(d) == RMin(Rat(d.totalStars, 10), R(20))

devDiversity(d) ==
    IF d.repoCount > 0 /\ RLt(R(0), d.avgStars)
    THEN RMin(RMul(R(d.repoCount), Log2(RAdd(d.avgStars, R(1)))), R(5))
    ELSE R(0)

devScore(d) == RAdd(RAdd(devVolume(d), devQuality(d)), devDiversity(d))

socialStrength(s) == RMin(RMul(socialScore(s), Rat(1, 30)), R(1))

devStrength(d) == RMin(RMul(devScore(d), Rat(1, 30)), R(1))

\* faulty variant: || written for &&
crossSourceBonus_either(s, d) ==
    IF s.tweetCount > 0 \/ d.repoCount > 0
    THEN 10 + RRound(RMul(RMul(socialStrength(s), devStrength(d)), R(10)))
    ELSE 0

crossSourceBonus(s, d) ==
    IF s.tweetCount > 0 /\ d.repoCount > 0
    THEN 10 + RRound(RMul(RMul(socialStrength(s), devStrength(d)), R(10)))
    ELSE 0

\* faulty variant: the clamps of the two strengths and of the result left out
computeSignalScore_unclamped(s, d) ==
    LET bonus == IF s.tweetCount > 0 /\ d.repoCount > 0
                 THEN 10 + RRound(RMul(RMul(RMul(socialScore(s), Rat(1, 30)),
                                            RMul(devScore(d), Rat(1, 30))),
                                       R(10)))
                 ELSE 0
    IN  RRound(RAdd(RAdd(socialScore(s), devScore(d)), R(bonus)))

\* faulty variant: the result capped at the maximum of one stream
computeSignalScore_cap40(s, d) ==
    IntMin(RRound(RAdd(RAdd(socialScore(s), devScore(d)),
                       R(crossSourceBonus(s, d)))),
           40)

computeSignalScore(s, d) ==
    IntMin(RRound(RAdd(RAdd(socialScore(s), devScore(d)),
                       R(crossSourceBonus(s, d)))),
           100)

(***************************************************************************)
(* determineStage                                                          *)
(***************************************************************************)
Stages == {"pre-narrative", "emergence", "acceleration", "peak"}

hasStrongSocial(s) == s.tweetCount >= 5 /\ s.avgEngagement >= 100
hasStrongDev(d)    == d.repoCount >= 5 /\ d.totalStars >= 20
hasAnySocial(s)    == s.tweetCount > 0
hasAnyDev(d)       == d.repoCount > 0

PeakRule(s, d) ==
    hasStrongSocial(s) /\ hasStrongDev(d)
        /\ s.avgEngagement >= 500 /\ s.uniqueAuthors >= 8

AccelerationRule(s, d) ==
    hasStrongSocial(s) /\ hasStrongDev(d) /\ s.avgEngagement >= 200

EmergenceRule(s, d) == hasStrongSocial(s) \/ hasStrongDev(d)

\* faulty variant: acceleration tested before peak
determineStage_accelerationFirst(s, d) ==
    IF AccelerationRule(s, d) THEN "acceleration"
    ELSE IF PeakRule(s, d) THEN "peak"
    ELSE IF EmergenceRule(s, d) THEN "emergence"
    ELSE IF hasAnyDev(d) /\ ~hasAnySocial(s) THEN "pre-narrative"
    ELSE IF hasAnySocial(s) THEN "emergence"
    ELSE "pre-narrative"

\* faulty variant: the social-only branch left out
determineStage_noSocialOnly(s, d) ==
    IF PeakRule(s, d) THEN "peak"
    ELSE IF AccelerationRule(s, d) THEN "acceleration"
    ELSE IF EmergenceRule(s, d) THEN "emergence"
    ELSE "pre-narrative"

determineStage(s, d) ==
    IF PeakRule(s, d) THEN "peak"
    ELSE IF AccelerationRule(s, d) THEN "acceleration"
    ELSE IF EmergenceRule(s, d) THEN "emergence"
    ELSE IF hasAnyDev(d) /\ ~hasAnySocial(s) THEN "pre-narrative"
    ELSE IF hasAnySocial(s) THEN "emergence"
    ELSE "pre-narrative"

(***************************************************************************)
(* computeConfidence                                                       *)
(***************************************************************************)
Hundredths(n) == Rat(n, 100)

\* confidence += h when cond
Bonus(cond, h) == IF cond THEN Hundredths(h) ELSE R(0)

confidenceSum(s, d) ==
    LET c0  == Hundredths(25)
        c1  == RAdd(c0, Bonus(s.tweetCount >= 3, 8))
        c2  == RAdd(c1, Bonus(s.tweetCount >= 10, 7))
        c3  == RAdd(c2, Bonus(s.avgEngagement >= 100, 8))
        c4  == RAdd(c3, Bonus(s.avgEngagement >= 300, 5))
        c5  == RAdd(c4, Bonus(s.uniqueAuthors >= 3, 8))
        c6  == RAdd(c5, Bonus(s.uniqueAuthors >= 8, 7))
        c7  == RAdd(c6, Bonus(d.repoCount >= 3, 8))
        c8  == RAdd(c7, Bonus(d.repoCount >= 10, 7))
        c9  == RAdd(c8, Bonus(d.totalStars >= 50, 5))
        c10 == RAdd(c9, Bonus(s.tweetCount > 0 /\ d.repoCount > 0, 12))
    IN  c10

\* faulty variant: the ceiling of 0.95 left out
computeConfidence_noCeiling(s, d) ==
    Rat(RRound(RMul(confidenceSum(s, d), R(100))), 100)

computeConfidence(s, d) ==
    RMin(Rat(RRound(RMul(confidenceSum(s, d), R(100))), 100), Hundredths(95))

(***************************************************************************)
(* Inputs of the scoring functions                                         *)
(***************************************************************************)
TweetCounts    == 0 .. MaxTweetCount
AvgEngagements == {0, 60, 100, 120, 200, 300, 500, 1200}
AuthorCounts   == {0, 3, 5, 8}
RepoCounts     == {0, 1, 4, 5, 8, 10}
StarTotals     == {0, 20, 40, 50, 200}
AvgStarValues  == {R(0), R(1), R(5)}

SocialSnapshot(t, e, u) ==
    [tweetCount |-> t, avgEngagement |-> e, totalEngagement |-> t * e,
     uniqueAuthors |-> u, topTweets |-> <<>>, keyTerms |-> <<>>]

DeveloperSnapshot(r, st, a) ==
    [repoCount |-> r, totalStars |-> st, avgStars |-> a,
     topRepos |-> <<>>, keyTerms |-> <<>>]

SocialInputs ==
    {SocialSnapshot(t, e, u) : t \in TweetCounts, e \in AvgEngagements,
                               u \in AuthorCounts}

DeveloperInputs ==
    {DeveloperSnapshot(r, st, a) : r \in RepoCounts, st \in StarTotals,
                                   a \in AvgStarValues}

\* The inputs on which exact arithmetic and IEEE-754 double arithmetic give
\* the same score: Math.log2 is exact or its term is capped, and no
\* Math.round argument is an exact tie built from operands that a double
\* cannot hold exactly.
RECURSIVE IsPow2(_)
IsPow2(n) == n = 1 \/ (n > 1 /\ n % 2 = 0 /\ IsPow2(n \div 2))

IsDyadic(x) == IsPow2(x[2])

IsTie(x) == x[2] = 2

Log2Exact(d) ==
    \/ ~(d.repoCount > 0 /\ RLt(R(0), d.avgStars))
    \/ LET x == RAdd(d.avgStars, R(1)) IN x[2] = 1 /\ IsPow2(x[1])
    \/ RLeq(R(5), RMul(R(d.repoCount), Log2(RAdd(d.avgStars, R(1)))))

ExactlyModelled(s, d) ==
    /\ Log2Exact(d)
    /\ (s.tweetCount > 0 /\ d.repoCount > 0
           /\ IsTie(RMul(RMul(socialStrength(s), devStrength(d)), R(10))))
         => (IsDyadic(socialStrength(s)) /\ IsDyadic(devStrength(d)))
    /\ IsTie(RAdd(RAdd(socialScore(s), devScore(d)), R(crossSourceBonus(s, d))))
         => (IsDyadic(socialEngagement(s)) /\ IsDyadic(diversityRatio(s))
               /\ IsDyadic(devQuality(d)))

(***************************************************************************)
(* One evaluation of the three functions (aggregateSignals lines 132-138) *)
(***************************************************************************)
InitFn ==
    /\ ExtIdle
    /\ social \in SocialInputs
    /\ developer \in DeveloperInputs
    /\ ExactlyModelled(social, developer) = TRUE
    /\ fpc = "score"
    /\ signalScore = -1
    /\ stage = "unset"
    /\ confidence = R(0)
    /\ xResult = <<>>
    /\ ghResult = <<>>
    /\ now = 0
    /\ results = <<>>

ScoreStep ==
    /\ fpc = "score"
    /\ signalScore' = computeSignalScore(social, developer)
    /\ fpc' = "stage"
    /\ UNCHANGED <<social, developer, stage, confidence>>
    /\ UNCHANGED <<aggVars, extVars>>

StageStep ==
    /\ fpc = "stage"
    /\ stage' = determineStage(social, developer)
    /\ fpc' = "confidence"
    /\ UNCHANGED <<social, developer, signalScore, confidence>>
    /\ UNCHANGED <<aggVars, extVars>>

ConfidenceStep ==
    /\ fpc = "confidence"
    /\ confidence' = computeConfidence(social, developer)
    /\ fpc' = "done"
    /\ UNCHANGED <<social, developer, signalScore, stage>>
    /\ UNCHANGED <<aggVars, extVars>>

NextFn == ScoreStep \/ StageStep \/ ConfidenceStep

SpecFn == InitFn /\ [][NextFn]_vars

(***************************************************************************)
(* aggregateSignals                                                        *)
(***************************************************************************)
TOPIC_ALIGNMENT ==
    << [name |-> "Privacy Infrastructure",
        x    |-> "Privacy & Confidential Computing",
        gh   |-> "Privacy & Confidential Computing"],
       [name |-> "AI Agent Economy",
        x    |-> "AI Agent Infrastructure",
        gh   |-> "AI Agent Infrastructure"],
       [name |-> "Agent Commerce",
        x    |-> "Agent Commerce & Payments",
        gh   |-> "Payments & Commerce"],
       [name |-> "DePIN Growth",
        x    |-> "DePIN & Physical Infrastructure",
        gh   |-> "DePIN"],
       [name |-> "Dev Tooling for Solana",
        x    |-> "Dev Tooling & AI-Assisted Building",
        gh   |-> "Dev Tooling"],
       [name |-> "Restaking & LSTs",
        x    |-> "Restaking & Liquid Staking",
        gh   |-> "DeFi & Financial"],
       [name |-> "Cross-chain",
        x    |-> "Cross-chain & Interoperability",
        gh   |-> ""] >>

METHODOLOGY == "NarrativeScope detects emerging narratives ..."

PeriodDays == 14

\* Array.prototype.find on topic: the index of the first cluster with that
\* topic, 0 for undefined
FindCluster(clusters, topic) ==
    IF \E i \in DOMAIN clusters : clusters[i].topic = topic
    THEN CHOOSE i \in DOMAIN clusters :
             /\ clusters[i].topic = topic
             /\ \A j \in DOMAIN clusters : clusters[j].topic = topic => i <= j
    ELSE 0

\* slice(0, n)
Slice(seq, n) == SubSeq(seq, 1, IntMin(n, Len(seq)))

\* text is modelled by its length
SliceText(len, n) == IntMin(len, n)

MapTopTweet(t) ==
    [text |-> SliceText(t.text, 200), author |-> t.author, likes |-> t.likes,
     url |-> <<"https://x.com/i/status/", t.tweetId>>]

MapTopRepo(r) ==
    [name |-> r.fullName, description |-> SliceText(r.description, 200),
     stars |-> r.stars, url |-> r.url]

\* faulty variant: a missing uniqueAuthors taken to be the tweet count
UniqueAuthorsOrZero_tweetCount(c) ==
    IF "uniqueAuthors" \in DOMAIN c THEN c.uniqueAuthors ELSE c.tweetCount

\* c.uniqueAuthors ?? 0
UniqueAuthorsOrZero(c) ==
    IF "uniqueAuthors" \in DOMAIN c THEN c.uniqueAuthors ELSE 0

SocialOf(clusters, i) ==
    IF i # 0
    THEN LET c == clusters[i]
             top == Slice(c.topTweets, 3)
         IN  [tweetCount |-> c.tweetCount,
              avgEngagement |-> c.avgEngagement,
              totalEngagement |-> c.totalEngagement,
              uniqueAuthors |-> UniqueAuthorsOrZero(c),
              topTweets |-> [k \in DOMAIN top |-> MapTopTweet(top[k])],
              keyTerms |-> c.keyTerms]
    ELSE [tweetCount |-> 0, avgEngagement |-> 0, totalEngagement |-> 0,
          uniqueAuthors |-> 0, topTweets |-> <<>>, keyTerms |-> <<>>]

DeveloperOf(clusters, i) ==
    IF i # 0
    THEN LET c == clusters[i]
             top == Slice(c.topRepos, 3)
         IN  [repoCount |-> c.repoCount,
              totalStars |-> c.totalStars,
              avgStars |-> c.avgStars,
              topRepos |-> [k \in DOMAIN top |-> MapTopRepo(top[k])],
              keyTerms |-> c.keyTerms]
    ELSE [repoCount |-> 0, totalStars |-> 0, avgStars |-> R(0),
          topRepos |-> <<>>, keyTerms |-> <<>>]

\* faulty variant: the explanation text carries the date of the run
generateExplanation_dated(name, s, d, st) ==
    [stageDesc |-> st, parts |-> <<[date |-> now]>>]

generateExplanation(name, s, d, st) ==
    [stageDesc |-> st,
     parts |->
        (IF s.tweetCount > 0
         THEN <<[tweets |-> s.tweetCount, avgEngagement |-> s.avgEngagement]>>
         ELSE <<>>)
        \o
        (IF d.repoCount > 0
         THEN <<[repos |-> d.repoCount, totalStars |-> d.totalStars]>>
         ELSE <<>>)]

Idea(title, difficulty, category) ==
    [title |-> title, difficulty |-> difficulty, category |-> category,
     description |-> title]

CannedNames ==
    {"Privacy Infrastructure", "AI Agent Economy", "Agent Commerce",
     "DePIN Growth", "Dev Tooling for Solana", "Restaking & LSTs",
     "Cross-chain"}

CannedIdeas(narrative) ==
    CASE narrative = "Privacy Infrastructure" ->
           << Idea("Private DeFi Aggregator", "hard", "DeFi"),
              Idea("Confidential DAO Voting", "medium", "Governance"),
              Idea("Privacy-Preserving Analytics Dashboard", "hard", "Analytics"),
              Idea("Shielded Token Launchpad", "medium", "Launchpad") >>
      [] narrative = "AI Agent Economy" ->
           << Idea("Agent Reputation System", "medium", "Infrastructure"),
              Idea("Agent Skill Marketplace", "medium", "Marketplace"),
              Idea("Multi-Agent Orchestration Framework", "hard", "Infrastructure"),
              Idea("Agent Activity Monitor", "easy", "Analytics") >>
      [] narrative = "Agent Commerce" ->
           << Idea("x402 Payment Gateway", "medium", "Payments"),
              Idea("Agent-to-Agent Invoice System", "medium", "Commerce"),
              Idea("Autonomous Service Directory", "easy", "Discovery") >>
      [] narrative = "DePIN Growth" ->
           << Idea("DePIN Network Aggregator", "easy", "Analytics"),
              Idea("DePIN Device Staking Platform", "hard", "DeFi"),
              Idea("Cross-DePIN Data Marketplace", "medium", "Data") >>
      [] narrative = "Dev Tooling for Solana" ->
           << Idea("AI Audit Copilot for Anchor", "hard", "Security"),
              Idea("Solana Program Template Generator", "medium",
                   "Developer Experience"),
              Idea("On-chain Error Decoder", "easy", "Developer Experience") >>
      [] narrative = "Restaking & LSTs" ->
           << Idea("LST Yield Optimizer", "medium", "DeFi"),
              Idea("Restaking Risk Dashboard", "easy", "Analytics") >>
      [] narrative = "Cross-chain" ->
           << Idea("Cross-chain Agent Router", "hard", "Infrastructure") >>

\* the property names every object literal inherits from Object.prototype
ObjectPrototypeKeys ==
    {"constructor", "toString", "toLocaleString", "valueOf",
     "hasOwnProperty", "isPrototypeOf", "propertyIsEnumerable", "__proto__",
     "__defineGetter__", "__defineSetter__", "__lookupGetter__",
     "__lookupSetter__"}

\* what ideas[narrative] is for an inherited property name: a function, or
\* Object.prototype itself.  It is not nullish and holds no idea record:
\* as a list of ideas it is the empty list.
InheritedMember == <<>>

\* ideas[narrative] ?? [generic idea naming the narrative]: the lookup in
\* the object literal finds own and inherited properties
generateBuildIdeas(narrative, socialTerms, devTerms) ==
    IF narrative \in CannedNames
    THEN CannedIdeas(narrative)
    ELSE IF narrative \in ObjectPrototypeKeys
    THEN InheritedMember
    ELSE << [title |-> "Narrative Tracker", difficulty |-> "easy",
             category |-> "Analytics", description |-> narrative] >>

\* faulty variant: the score floor left out
ProcessEntry_noFloor(entry, xr, gr) ==
    LET xi == FindCluster(xr.topicClusters, entry.x)
        gi == FindCluster(gr.topicClusters, entry.gh)
    IN  IF xi = 0 /\ gi = 0 THEN <<>>
        ELSE LET s == SocialOf(xr.topicClusters, xi)
                 d == DeveloperOf(gr.topicClusters, gi)
                 st == determineStage(s, d)
             IN  << [name |-> entry.name,
                     confidence |-> computeConfidence(s, d),
                     stage |-> st,
                     explanation |-> generateExplanation(entry.name, s, d, st),
                     signalScore |-> computeSignalScore(s, d),
                     signals |-> [social |-> s, developer |-> d],
                     buildIdeas |->
                        generateBuildIdeas(entry.name, s.keyTerms, d.keyTerms)] >>

\* one pass of the loop body (lines 93-158): the records it pushes
ProcessEntry(entry, xr, gr) ==
    LET xi == FindCluster(xr.topicClusters, entry.x)
        gi == FindCluster(gr.topicClusters, entry.gh)
    IN  IF xi = 0 /\ gi = 0 THEN <<>>
        ELSE LET s == SocialOf(xr.topicClusters, xi)
                 d == DeveloperOf(gr.topicClusters, gi)
                 score == computeSignalScore(s, d)
                 st == determineStage(s, d)
                 conf == computeConfidence(s, d)
             IN  IF score < 15 THEN <<>>
                 ELSE << [name |-> entry.name,
                          confidence |-> conf,
                          stage |-> st,
                          explanation |->
                             generateExplanation(entry.name, s, d, st),
                          signalScore |-> score,
                          signals |-> [social |-> s, developer |-> d],
                          buildIdeas |->
                             generateBuildIdeas(entry.name, s.keyTerms,
                                                d.keyTerms)] >>

RECURSIVE CollectNarratives(_, _, _)
CollectNarratives(i, xr, gr) ==
    IF i > Len(TOPIC_ALIGNMENT) THEN <<>>
    ELSE ProcessEntry(TOPIC_ALIGNMENT[i], xr, gr)
            \o CollectNarratives(i + 1, xr, gr)

\* faulty variant: an unstable sort, a record goes before its equals
RECURSIVE InsertByScore_unstable(_, _)
InsertByScore_unstable(n, sorted) ==
    IF sorted = <<>> THEN <<n>>
    ELSE IF Head(sorted).signalScore > n.signalScore
         THEN <<Head(sorted)>> \o InsertByScore_unstable(n, Tail(sorted))
         ELSE <<n>> \o sorted

\* narratives.sort((a, b) => b.signalScore - a.signalScore): stable,
\* descending
RECURSIVE InsertByScore(_, _)
InsertByScore(n, sorted) ==
    IF sorted = <<>> THEN <<n>>
    ELSE IF Head(sorted).signalScore >= n.signalScore
         THEN <<Head(sorted)>> \o InsertByScore(n, Tail(sorted))
         ELSE <<n>> \o sorted

RECURSIVE SortByScore(_, _)
SortByScore(todo, sorted) ==
    IF todo = <<>> THEN sorted
    ELSE SortByScore(Tail(todo), InsertByScore(Head(todo), sorted))

\* toISOString().split("T")[0] of the instant t: its calendar day
DateOf(t) == t \div TicksPerDay

\* periodEnd, periodStart and generatedAt are three readings of the clock
aggregateSignals(xr, gr, tEnd, tStart, tGen) ==
    [generatedAt |-> tGen,
     period |-> <<DateOf(tStart) - PeriodDays, DateOf(tEnd)>>,
     narratives |-> SortByScore(CollectNarratives(1, xr, gr), <<>>),
     methodology |-> METHODOLOGY]

(***************************************************************************)
(* Cluster sets handed to aggregateSignals                                 *)
(***************************************************************************)
Tweet(len, author, likes, id) ==
    [text |-> len, author |-> author, likes |-> likes, tweetId |-> id]

Repo(fullName, len, stars) ==
    [fullName |-> fullName, description |-> len, stars |-> stars,
     url |-> <<"https://github.com/", fullName>>]

XStrong ==
    [topic |-> "Privacy & Confidential Computing", tweetCount |-> 10,
     avgEngagement |-> 120, totalEngagement |-> 1200, uniqueAuthors |-> 5,
     topTweets |-> << Tweet(280, "a1", 300, "t1"), Tweet(120, "a2", 90, "t2"),
                      Tweet(200, "a3", 40, "t3"), Tweet(60, "a1", 10, "t4") >>,
     keyTerms |-> <<"privacy", "confidential">>]

XMedium ==
    [topic |-> "Restaking & Liquid Staking", tweetCount |-> 6,
     avgEngagement |-> 60, totalEngagement |-> 360, uniqueAuthors |-> 3,
     topTweets |-> << Tweet(140, "a4", 50, "t5") >>,
     keyTerms |-> <<"restaking">>]

XWeak ==
    [topic |-> "Cross-chain & Interoperability", tweetCount |-> 1,
     avgEngagement |-> 30, totalEngagement |-> 30, uniqueAuthors |-> 1,
     topTweets |-> << Tweet(90, "a5", 20, "t6") >>,
     keyTerms |-> <<>>]

\* a cluster of the conversion script: no uniqueAuthors field
XConverted ==
    [topic |-> "Privacy & Confidential Computing", tweetCount |-> 2,
     avgEngagement |-> 24, totalEngagement |-> 48,
     topTweets |-> << Tweet(201, "a6", 12, "t7") >>,
     keyTerms |-> <<>>]

GStrong ==
    [topic |-> "Privacy & Confidential Computing", repoCount |-> 8,
     totalStars |-> 40, avgStars |-> R(5),
     topRepos |-> << Repo("o1/r1", 250, 20), Repo("o2/r2", 30, 10),
                     Repo("o3/r3", 0, 5), Repo("o4/r4", 10, 5) >>,
     keyTerms |-> <<"zero", "knowledge">>]

GMedium ==
    [topic |-> "Payments & Commerce", repoCount |-> 5,
     totalStars |-> 30, avgStars |-> R(1),
     topRepos |-> << Repo("o5/r5", 80, 30) >>,
     keyTerms |-> <<"payments">>]

GWeak ==
    [topic |-> "DeFi & Financial", repoCount |-> 1,
     totalStars |-> 0, avgStars |-> R(0),
     topRepos |-> << Repo("o6/r6", 40, 0) >>,
     keyTerms |-> <<>>]

XClusterInputs == {XStrong, XMedium, XWeak, XConverted}
GHClusterInputs == {GStrong, GMedium, GWeak}

\* the sequences that list each element of S at most once
Arrangements(S) ==
    UNION {{f \in [1 .. k -> S] : \A i, j \in 1 .. k : i # j => f[i] # f[j]} :
             k \in 0 .. Cardinality(S)}

EntrySocial(entry, xr) ==
    SocialOf(xr.topicClusters, FindCluster(xr.topicClusters, entry.x))

EntryDeveloper(entry, gr) ==
    DeveloperOf(gr.topicClusters, FindCluster(gr.topicClusters, entry.gh))

AllExactlyModelled(xr, gr) ==
    \A k \in DOMAIN TOPIC_ALIGNMENT :
        ExactlyModelled(EntrySocial(TOPIC_ALIGNMENT[k], xr),
                        EntryDeveloper(TOPIC_ALIGNMENT[k], gr))

Init ==
    /\ ExtIdle
    /\ xResult \in {[topicClusters |-> a] : a \in Arrangements(XClusterInputs)}
    /\ ghResult \in {[topicClusters |-> a] : a \in Arrangements(GHClusterInputs)}
    /\ AllExactlyModelled(xResult, ghResult) = TRUE
    /\ now = 0
    /\ results = <<>>
    /\ social = SocialOf(<<>>, 0)
    /\ developer = DeveloperOf(<<>>, 0)
    /\ fpc = "idle"
    /\ signalScore = -1
    /\ stage = "unset"
    /\ confidence = R(0)

\* the wall clock advances
Tick ==
    /\ now < MaxClock
    /\ now' = now + 1
    /\ UNCHANGED <<xResult, ghResult, results>>
    /\ UNCHANGED <<fnVars, extVars>>

\* one run of aggregateSignals on the two cluster sets
Aggregate ==
    /\ Len(results) < MaxRuns
    /\ \E tEnd \in now .. MaxClock :
         \E tStart \in tEnd .. MaxClock :
           \E tGen \in tStart .. MaxClock :
              /\ results' = Append(results,
                     aggregateSignals(xResult, ghResult, tEnd, tStart, tGen))
              /\ now' = tGen
    /\ UNCHANGED <<xResult, ghResult>>
    /\ UNCHANGED <<fnVars, extVars>>

Next == Tick \/ Aggregate

Spec == Init /\ [][Next]_vars


(***************************************************************************)
(* Properties of the scoring functions (checked under SpecFn)              *)
(***************************************************************************)
Scored == fpc # "score"
JustScored == fpc = "stage"
Staged == fpc \in {"confidence", "done"}
Rated  == fpc = "done"

WithTweetCount(s, t) == [s EXCEPT !.tweetCount = t]
WithAvgEngagement(s, e) == [s EXCEPT !.avgEngagement = e]

\* C1: for snapshots with non-negative numeric fields computeSignalScore
\* returns an integer between 0 and 100 inclusive.
C1_ScoreIntegerInRange == Scored => signalScore \in 0 .. 100

C1_Witness ==
    /\ Scored
    /\ signalScore = 100
    /\ socialScore(social) = R(40)
    /\ devScore(developer) = R(40)

\* C2: computeConfidence returns a whole number of hundredths, never below
\* 0.25 and never above 0.95.
C2_ConfidenceInRange ==
    Rated => /\ RMul(confidence, R(100))[2] = 1
             /\ RLeq(Hundredths(25), confidence)
             /\ RLeq(confidence, Hundredths(95))

C2_Witness ==
    /\ Rated
    /\ confidence = Hundredths(95)
    /\ confidenceSum(social, developer) = Hundredths(100)

\* C4 as stated: with the developer snapshot, avgEngagement and
\* uniqueAuthors fixed, a larger tweetCount never gives a smaller score.
C4_TweetCountMonotone ==
    JustScored =>
        \A t \in TweetCounts :
            (t > social.tweetCount
                /\ ExactlyModelled(WithTweetCount(social, t), developer))
            => computeSignalScore(WithTweetCount(social, t), developer)
                   >= signalScore

\* C4 as amended: a larger tweetCount never gives a smaller score when the
\* larger value is at most 6 (socialVolume not above its cap) or the
\* diversity bonus is not lowered by the change.
C4_TweetCountMonotoneAmended ==
    JustScored =>
        \A t \in TweetCounts :
            (/\ t > social.tweetCount
             /\ ExactlyModelled(WithTweetCount(social, t), developer)
             /\ \/ t <= 6
                \/ RLeq(diversityBonus(social),
                        diversityBonus(WithTweetCount(social, t))))
            => computeSignalScore(WithTweetCount(social, t), developer)
                   >= signalScore

\* a larger tweetCount, within the amended claim, that raises the score
\* while lowering the diversity bonus
C4_Witness ==
    /\ JustScored
    /\ \E t \in TweetCounts :
          /\ t > social.tweetCount
          /\ t <= 6
          /\ ExactlyModelled(WithTweetCount(social, t), developer)
          /\ RLt(diversityBonus(WithTweetCount(social, t)),
                 diversityBonus(social))
          /\ computeSignalScore(WithTweetCount(social, t), developer)
                 > signalScore

\* C5: with the developer snapshot, tweetCount and uniqueAuthors fixed, a
\* larger avgEngagement never gives a smaller score.
C5_AvgEngagementMonotone ==
    JustScored =>
        \A e \in AvgEngagements :
            (e > social.avgEngagement
                /\ ExactlyModelled(WithAvgEngagement(social, e), developer))
            => computeSignalScore(WithAvgEngagement(social, e), developer)
                   >= signalScore

C5_Witness ==
    /\ JustScored
    /\ \E e \in AvgEngagements :
          /\ e > social.avgEngagement
          /\ ExactlyModelled(WithAvgEngagement(social, e), developer)
          /\ computeSignalScore(WithAvgEngagement(social, e), developer)
                 > signalScore
          /\ crossSourceBonus(WithAvgEngagement(social, e), developer)
                 > crossSourceBonus(social, developer)

\* C6: the cross-source bonus is 0 when tweetCount = 0 or repoCount = 0,
\* and otherwise an integer from 10 to 20, 20 only when the product of the
\* two normalized strengths is at least 0.95.
C6_CrossSourceBonusRange ==
    Scored =>
        LET b == crossSourceBonus(social, developer)
        IN  /\ (social.tweetCount = 0 \/ developer.repoCount = 0) => b = 0
            /\ (social.tweetCount > 0 /\ developer.repoCount > 0) =>
                  /\ b \in 10 .. 20
                  /\ b = 20 =>
                        RLeq(Rat(95, 100),
                             RMul(socialStrength(social), devStrength(developer)))
            /\ signalScore =
                  RRound(RAdd(RAdd(socialScore(social), devScore(developer)),
                              R(b)))

C6_WitnessBonus10 ==
    /\ Scored
    /\ social.tweetCount > 0
    /\ developer.repoCount > 0
    /\ crossSourceBonus(social, developer) = 10

C6_Witness ==
    /\ Scored
    /\ social.tweetCount = 0
    /\ developer.repoCount > 0
    /\ RLt(R(0), devStrength(developer))
    /\ crossSourceBonus(social, developer) = 0

\* C7: determineStage maps every input to one of the four stages; the peak
\* rule implies the acceleration rule, which implies the first emergence
\* rule; the first rule that matches decides the result.
C7_StageTotalAndNested ==
    Staged =>
        /\ stage \in Stages
        /\ PeakRule(social, developer) => AccelerationRule(social, developer)
        /\ AccelerationRule(social, developer) => EmergenceRule(social, developer)
        /\ PeakRule(social, developer) => stage = "peak"
        /\ (AccelerationRule(social, developer) /\ ~PeakRule(social, developer))
              => stage = "acceleration"
        /\ (EmergenceRule(social, developer)
              /\ ~AccelerationRule(social, developer)) => stage = "emergence"

C7_Witness == Staged /\ stage = "peak"

WeakSocialOnly ==
    /\ social.tweetCount > 0
    /\ ~hasStrongSocial(social)
    /\ developer.repoCount = 0

ScenarioSocial == SocialSnapshot(10, 120, 5)
ScenarioDeveloper == DeveloperSnapshot(8, 40, R(5))
InScenario == social = ScenarioSocial /\ developer = ScenarioDeveloper

\* C9: for social {tweetCount 10, avgEngagement 120, uniqueAuthors 5} and
\* developer {repoCount 8, totalStars 40, avgStars 5}: socialScore 19.5,
\* devScore 24, cross-source bonus 15, score 59, stage emergence.
C9_ConcreteScenario ==
    (InScenario /\ Staged) =>
        /\ socialScore(social) = Rat(39, 2)
        /\ devScore(developer) = R(24)
        /\ crossSourceBonus(social, developer) = 15
        /\ signalScore = 59
        /\ stage = "emergence"

C9_Witness == InScenario /\ Staged

(***************************************************************************)
(* Properties of aggregateSignals (checked under Spec)                     *)
(***************************************************************************)
Entries == {TOPIC_ALIGNMENT[k] : k \in DOMAIN TOPIC_ALIGNMENT}

EntryNamed(name) == CHOOSE e \in Entries : e.name = name

HasXCluster(entry) == FindCluster(xResult.topicClusters, entry.x) # 0
HasGHCluster(entry) == FindCluster(ghResult.topicClusters, entry.gh) # 0

EntryScore(entry) ==
    computeSignalScore(EntrySocial(entry, xResult),
                       EntryDeveloper(entry, ghResult))

Emitted(res, entry) ==
    \E k \in DOMAIN res.narratives : res.narratives[k].name = entry.name

\* C3: every record returned by aggregateSignals has signalScore >= 15 and
\* comes from an alignment entry with at least one of its two clusters
\* present; an entry with both clusters absent, or with score < 15, yields
\* no record.
C3_RecordsAboveFloor ==
    \A r \in DOMAIN results :
        /\ \A k \in DOMAIN results[r].narratives :
              LET n == results[r].narratives[k]
              IN  /\ n.signalScore >= 15
                  /\ n.name \in {e.name : e \in Entries}
                  /\ HasXCluster(EntryNamed(n.name))
                        \/ HasGHCluster(EntryNamed(n.name))
        /\ \A e \in Entries :
              ((~HasXCluster(e) /\ ~HasGHCluster(e)) \/ EntryScore(e) < 15)
                 => ~Emitted(results[r], e)

\* a run that drops a weak social-only entry and a weak developer-only
\* entry and emits a record for another
C3_Witness ==
    /\ results # <<>>
    /\ results[1].narratives # <<>>
    /\ \E e \in Entries :
          HasXCluster(e) /\ ~HasGHCluster(e) /\ EntryScore(e) < 15
    /\ \E e \in Entries :
          ~HasXCluster(e) /\ HasGHCluster(e) /\ EntryScore(e) < 15

\* C10 as stated: two runs on the same cluster sets return the same
\* narratives list, the same period and the same methodology text,
\* whenever they happen.
C10_SameExceptGeneratedAt ==
    \A i, j \in DOMAIN results :
        /\ results[i].narratives = results[j].narratives
        /\ results[i].period = results[j].period
        /\ results[i].methodology = results[j].methodology

\* C10 as amended: two runs on the same cluster sets return the same
\* narratives list and the same methodology text, whenever they happen;
\* generatedAt and period depend on the time of the run.
C10_SameNarratives ==
    \A i, j \in DOMAIN results :
        /\ results[i].narratives = results[j].narratives
        /\ results[i].methodology = results[j].methodology

\* two runs at different times, each emitting records
C10_Witness ==
    /\ Len(results) >= 2
    /\ results[1].generatedAt # results[2].generatedAt
    /\ results[1].period # results[2].period
    /\ Len(results[1].narratives) >= 2

\* position of a narrative name in the alignment table
AlignmentIndex(name) ==
    CHOOSE k \in DOMAIN TOPIC_ALIGNMENT : TOPIC_ALIGNMENT[k].name = name

\* C11: the narratives list returned by aggregateSignals is ordered by
\* non-increasing signalScore, and any two records with equal signalScore
\* appear in the order of their entries in the alignment table.
C11_SortedStable ==
    \A r \in DOMAIN results :
        LET ns == results[r].narratives
        IN  \A i, j \in DOMAIN ns :
               i < j =>
                  /\ ns[i].signalScore >= ns[j].signalScore
                  /\ ns[i].signalScore = ns[j].signalScore
                        => AlignmentIndex(ns[i].name)
                              < AlignmentIndex(ns[j].name)

\* a run whose list holds two records of equal score, from entries that
\* are not neighbours in the alignment table, below a record of a higher
\* score
C11_Witness ==
    /\ results # <<>>
    /\ LET ns == results[1].narratives
       IN  \E h, i, j \in DOMAIN ns :
              /\ h < i /\ i < j
              /\ ns[h].signalScore > ns[i].signalScore
              /\ ns[i].signalScore = ns[j].signalScore
              /\ AlignmentIndex(ns[j].name) > AlignmentIndex(ns[i].name) + 1

\* a run in which the sort moves a record ahead of one from an earlier
\* alignment entry
C11_Reordered ==
    /\ results # <<>>
    /\ LET ns == results[1].narratives
       IN  \E i, j \in DOMAIN ns :
              /\ i < j
              /\ ns[i].signalScore > ns[j].signalScore
              /\ AlignmentIndex(ns[i].name) > AlignmentIndex(ns[j].name)

(***************************************************************************)
(* aggregateSignals on clusters whose numeric fields may be NaN or         *)
(* undefined.  A JS number is a rational <<n, d>> with d > 0, or NaN; a    *)
(* field that is undefined is a field the cluster record does not have.    *)
(***************************************************************************)
NaN == <<0, 0>>
Undefined == <<>>

\* c.f, for a property the object may lack
Field(c, f) == IF f \in DOMAIN c THEN c[f] ELSE Undefined

\* v ?? dflt
NullishOr(v, dflt) == IF v = Undefined THEN dflt ELSE v

\* ToNumber, applied by every arithmetic operator and comparison
ToNumber(v) == IF v = Undefined THEN NaN ELSE v

NonFinite(v) == ToNumber(v) = NaN

JsAdd(x, y) ==
    IF NonFinite(x) \/ NonFinite(y) THEN NaN ELSE RAdd(x, y)

JsMul(x, y) ==
    IF NonFinite(x) \/ NonFinite(y) THEN NaN ELSE RMul(x, y)

\* x / y, for a divisor that is NaN or positive
JsDiv(x, y) ==
    IF NonFinite(x) \/ NonFinite(y) THEN NaN ELSE RMul(x, <<y[2], y[1]>>)

\* Math.min: NaN when either argument is NaN
JsMin(x, y) ==
    IF NonFinite(x) \/ NonFinite(y) THEN NaN ELSE RMin(x, y)

\* Math.round
JsRound(x) == IF NonFinite(x) THEN NaN ELSE R(RRound(x))

\* x > y, x >= y, x < y: false when either side is NaN
JsGt(x, y) == ~NonFinite(x) /\ ~NonFinite(y) /\ RLt(y, x)
JsGe(x, y) == ~NonFinite(x) /\ ~NonFinite(y) /\ RLeq(y, x)
JsLt(x, y) == ~NonFinite(x) /\ ~NonFinite(y) /\ RLt(x, y)

\* the social snapshot of a matched cluster (lines 100-113)
JsSocialOf(c) ==
    [tweetCount |-> Field(c, "tweetCount"),
     avgEngagement |-> Field(c, "avgEngagement"),
     totalEngagement |-> Field(c, "totalEngagement"),
     uniqueAuthors |-> NullishOr(Field(c, "uniqueAuthors"), R(0)),
     topTweets |-> <<>>,
     keyTerms |-> <<>>]

\* the developer snapshot of a matched cluster (lines 116-128)
JsDeveloperOf(c) ==
    [repoCount |-> Field(c, "repoCount"),
     totalStars |-> Field(c, "totalStars"),
     avgStars |-> Field(c, "avgStars"),
     topRepos |-> <<>>,
     keyTerms |-> <<>>]

JsSocialScore(s) ==
    LET volume == JsMin(JsMul(s.tweetCount, Rat(5, 2)), R(15))
        engagement == JsMin(JsDiv(s.avgEngagement, R(60)), R(20))
        ratio == IF JsGt(s.tweetCount, R(0))
                 THEN JsDiv(s.uniqueAuthors, s.tweetCount)
                 ELSE R(0)
        bonus == JsMin(JsMul(ratio, s.uniqueAuthors), R(5))
    IN  JsAdd(JsAdd(volume, engagement), bonus)

JsDevScore(d) ==
    LET volume == JsMin(JsMul(d.repoCount, R(2)), R(15))
        quality == JsMin(JsDiv(d.totalStars, R(10)), R(20))
        diversity ==
            IF JsGt(d.repoCount, R(0)) /\ JsGt(d.avgStars, R(0))
            THEN JsMin(JsMul(d.repoCount, Log2(RAdd(d.avgStars, R(1)))),
                       R(5))
            ELSE R(0)
    IN  JsAdd(JsAdd(volume, quality), diversity)

JsCrossSourceBonus(s, d) ==
    IF JsGt(s.tweetCount, R(0)) /\ JsGt(d.repoCount, R(0))
    THEN LET socialStr == JsMin(JsDiv(JsSocialScore(s), R(30)), R(1))
             devStr == JsMin(JsDiv(JsDevScore(d), R(30)), R(1))
         IN  JsAdd(R(10), JsRound(JsMul(JsMul(socialStr, devStr), R(10))))
    ELSE R(0)

\* computeSignalScore over JS numbers
JsComputeSignalScore(s, d) ==
    JsMin(JsRound(JsAdd(JsAdd(JsSocialScore(s), JsDevScore(d)),
                        JsCrossSourceBonus(s, d))),
          R(100))

\* determineStage over JS numbers
JsDetermineStage(s, d) ==
    LET strongSocial == JsGe(s.tweetCount, R(5))
                           /\ JsGe(s.avgEngagement, R(100))
        strongDev == JsGe(d.repoCount, R(5)) /\ JsGe(d.totalStars, R(20))
        anySocial == JsGt(s.tweetCount, R(0))
        anyDev == JsGt(d.repoCount, R(0))
    IN  IF strongSocial /\ strongDev /\ JsGe(s.avgEngagement, R(500))
              /\ JsGe(s.uniqueAuthors, R(8))
        THEN "peak"
        ELSE IF strongSocial /\ strongDev /\ JsGe(s.avgEngagement, R(200))
        THEN "acceleration"
        ELSE IF strongSocial \/ strongDev THEN "emergence"
        ELSE IF anyDev /\ ~anySocial THEN "pre-narrative"
        ELSE IF anySocial THEN "emergence"
        ELSE "pre-narrative"

\* computeConfidence over JS numbers
JsComputeConfidence(s, d) ==
    LET c0  == Hundredths(25)
        c1  == RAdd(c0, Bonus(JsGe(s.tweetCount, R(3)), 8))
        c2  == RAdd(c1, Bonus(JsGe(s.tweetCount, R(10)), 7))
        c3  == RAdd(c2, Bonus(JsGe(s.avgEngagement, R(100)), 8))
        c4  == RAdd(c3, Bonus(JsGe(s.avgEngagement, R(300)), 5))
        c5  == RAdd(c4, Bonus(JsGe(s.uniqueAuthors, R(3)), 8))
        c6  == RAdd(c5, Bonus(JsGe(s.uniqueAuthors, R(8)), 7))
        c7  == RAdd(c6, Bonus(JsGe(d.repoCount, R(3)), 8))
        c8  == RAdd(c7, Bonus(JsGe(d.repoCount, R(10)), 7))
        c9  == RAdd(c8, Bonus(JsGe(d.totalStars, R(50)), 5))
        c10 == RAdd(c9, Bonus(JsGt(s.tweetCount, R(0))
                                 /\ JsGt(d.repoCount, R(0)), 12))
    IN  JsMin(JsDiv(JsRound(JsMul(c10, R(100))), R(100)), Hundredths(95))

\* the finite value each numeric field has when it is a number
FiniteSocial ==
    [tweetCount |-> R(6), avgEngagement |-> R(120),
     totalEngagement |-> R(720), uniqueAuthors |-> R(6)]

FiniteDeveloper ==
    [repoCount |-> R(5), totalStars |-> R(30), avgStars |-> R(1)]

SocialNumFields == DOMAIN FiniteSocial
DeveloperNumFields == DOMAIN FiniteDeveloper

\* the assignments that give each field its number, NaN or undefined
FieldChoices(finite) ==
    {a \in [DOMAIN finite ->
              {finite[f] : f \in DOMAIN finite} \cup {NaN, Undefined}] :
        \A f \in DOMAIN finite : a[f] \in {finite[f], NaN, Undefined}}

\* the cluster object: an undefined field is a property it does not have
RawCluster(topic, a) ==
    [f \in {"topic"} \cup {g \in DOMAIN a : a[g] # Undefined} |->
        IF f = "topic" THEN topic ELSE a[f]]

NumEntry == TOPIC_ALIGNMENT[1]

XRawClusters ==
    {RawCluster(NumEntry.x, a) : a \in FieldChoices(FiniteSocial)}

GHRawClusters ==
    {RawCluster(NumEntry.gh, a) : a \in FieldChoices(FiniteDeveloper)}

NumXCluster ==
    xResult.topicClusters[FindCluster(xResult.topicClusters, NumEntry.x)]

NumGHCluster ==
    ghResult.topicClusters[FindCluster(ghResult.topicClusters, NumEntry.gh)]

InitNum ==
    /\ ExtIdle
    /\ xResult \in {[topicClusters |-> <<c>>] : c \in XRawClusters}
    /\ ghResult \in {[topicClusters |-> <<c>>] : c \in GHRawClusters}
    /\ now = 0
    /\ results = <<>>
    /\ social = Undefined
    /\ developer = Undefined
    /\ fpc = "snapshot"
    /\ signalScore = Undefined
    /\ stage = "unset"
    /\ confidence = Undefined

\* lines 94-129: both clusters found, the two snapshots built
NumSnapshotStep ==
    /\ fpc = "snapshot"
    /\ social' = JsSocialOf(NumXCluster)
    /\ developer' = JsDeveloperOf(NumGHCluster)
    /\ fpc' = "score"
    /\ UNCHANGED <<signalScore, stage, confidence>>
    /\ UNCHANGED <<aggVars, extVars>>

NumScoreStep ==
    /\ fpc = "score"
    /\ signalScore' = JsComputeSignalScore(social, developer)
    /\ fpc' = "stage"
    /\ UNCHANGED <<social, developer, stage, confidence>>
    /\ UNCHANGED <<aggVars, extVars>>

NumStageStep ==
    /\ fpc = "stage"
    /\ stage' = JsDetermineStage(social, developer)
    /\ fpc' = "confidence"
    /\ UNCHANGED <<social, developer, signalScore, confidence>>
    /\ UNCHANGED <<aggVars, extVars>>

NumConfidenceStep ==
    /\ fpc = "confidence"
    /\ confidence' = JsComputeConfidence(social, developer)
    /\ fpc' = "floor"
    /\ UNCHANGED <<social, developer, signalScore, stage>>
    /\ UNCHANGED <<aggVars, extVars>>

\* lines 141-157: the record is pushed unless signalScore < 15
NumFloorStep ==
    /\ fpc = "floor"
    /\ results' = Append(results,
          [narratives |->
              IF JsLt(signalScore, R(15)) THEN <<>>
              ELSE << [name |-> NumEntry.name,
                       confidence |-> confidence,
                       stage |-> stage,
                       signalScore |-> signalScore,
                       signals |-> [social |-> social,
                                    developer |-> developer]] >>])
    /\ fpc' = "done"
    /\ UNCHANGED <<social, developer, signalScore, stage, confidence>>
    /\ UNCHANGED <<xResult, ghResult, now, extVars>>

NextNum ==
    \/ NumSnapshotStep
    \/ NumScoreStep
    \/ NumStageStep
    \/ NumConfidenceStep
    \/ NumFloorStep

SpecNum == InitNum /\ [][NextNum]_vars

SnapshotBuilt == fpc # "snapshot"

\* C12: when a matched cluster carries an undefined or NaN value in any
\* numeric field, the snapshot built by aggregateSignals holds 0 for that
\* field, and no emitted narrative has a NaN signalScore or NaN confidence.
C12_NonFiniteTreatedAsZero ==
    /\ SnapshotBuilt =>
          /\ \A f \in SocialNumFields :
                NonFinite(Field(NumXCluster, f)) => social[f] = R(0)
          /\ \A f \in DeveloperNumFields :
                NonFinite(Field(NumGHCluster, f)) => developer[f] = R(0)
    /\ \A r \in DOMAIN results :
          \A k \in DOMAIN results[r].narratives :
             /\ results[r].narratives[k].signalScore # NaN
             /\ results[r].narratives[k].confidence # NaN

\* a run that emits a record whose signalScore is NaN
C12_NaNScoreEmitted ==
    /\ fpc = "done"
    /\ results[1].narratives # <<>>
    /\ results[1].narratives[1].signalScore = NaN

\* what the code does guarantee: an undefined uniqueAuthors becomes 0, and
\* confidence is never NaN
C12_OnlyUniqueAuthorsDefaulted ==
    /\ SnapshotBuilt =>
          (Field(NumXCluster, "uniqueAuthors") = Undefined
              => social.uniqueAuthors = R(0))
    /\ \A r \in DOMAIN results :
          \A k \in DOMAIN results[r].narratives :
             results[r].narratives[k].confidence # NaN

(***************************************************************************)
(* llm-synthesis.ts and the runner (run.ts)                                *)
(***************************************************************************)
\* a text, as a record of its parts, like the explanation texts of the
\* aggregator; EmptyText is ""
LlmText == [stageDesc |-> "llm", parts |-> <<>>]
EmptyText == [stageDesc |-> "", parts |-> <<>>]

\* JSON values of build_ideas: an array of idea objects, or something else
JsonArray(items) == [array |-> TRUE, items |-> items]
JsonNotArray == [array |-> FALSE, items |-> <<>>]

\* the JSON objects the model answers with; a key may be missing
FullPayload ==
    [explanation |-> LlmText,
     build_ideas |-> JsonArray(<< [title |-> "LLM idea",
                                   description |-> "LLM idea",
                                   difficulty |-> "hard",
                                   category |-> "DeFi"] >>)]

Payloads ==
    { FullPayload,
      [explanation |-> LlmText,
       build_ideas |-> JsonArray(<< [title |-> "LLM idea",
                                     description |-> "LLM idea"] >>)],
      [explanation |-> LlmText],
      [build_ideas |-> JsonArray(<<>>)],
      [explanation |-> LlmText, build_ideas |-> JsonNotArray] }

\* how the JSON object sits in the response text: alone, inside prose,
\* inside prose with its braces but not valid JSON, or not at all
Wrappers == {"bare", "prose", "broken", "none"}

\* what one call of the API can come to
Responses ==
    { [kind |-> "fetch_throws"], [kind |-> "http_error"],
      [kind |-> "no_content"] }
    \cup { [kind |-> "text", wrapper |-> "bare", payload |-> p] :
              p \in Payloads }
    \cup { [kind |-> "text", wrapper |-> w, payload |-> FullPayload] :
              w \in Wrappers }

Threw == [threw |-> TRUE]
Returned(v) == [threw |-> FALSE, value |-> v]

\* idea.difficulty || "medium", idea.category || "Infrastructure"
KeyOr(obj, key, dflt) == IF key \in DOMAIN obj THEN obj[key] ELSE dflt

MapIdea(idea) ==
    [title |-> idea.title,
     description |-> idea.description,
     difficulty |-> KeyOr(idea, "difficulty", "medium"),
     category |-> KeyOr(idea, "category", "Infrastructure")]

parseResponse(name, text) ==
    LET direct == text.wrapper = "bare"
        jsonMatch == text.wrapper \in {"prose", "broken"}
        extracted == text.wrapper = "prose"
    IN  IF ~direct /\ ~jsonMatch THEN Threw
        ELSE IF ~direct /\ ~extracted THEN Threw
        ELSE LET parsed == text.payload
                 ideas == KeyOr(parsed, "build_ideas", JsonArray(<<>>))
             IN  IF ~ideas.array THEN Threw
                 ELSE Returned(
                        [name |-> name,
                         explanation |->
                            KeyOr(parsed, "explanation", EmptyText),
                         buildIdeas |->
                            [k \in DOMAIN ideas.items |->
                                MapIdea(ideas.items[k])]])

synthesizeNarrative(narrative, resp) ==
    IF resp.kind = "fetch_throws" THEN Threw
    ELSE IF resp.kind = "http_error" THEN Threw
    ELSE IF resp.kind = "no_content" THEN Threw
    ELSE parseResponse(narrative.name, resp)

\* faulty variant: the catch block sets an entry without the existing data
SynthEntry_emptyFallback(n, resp) ==
    LET r == synthesizeNarrative(n, resp)
    IN  IF r.threw
        THEN [name |-> n.name, explanation |-> EmptyText, buildIdeas |-> <<>>]
        ELSE r.value

\* the value results.set(n.name, ...) stores in one pass of the loop of
\* synthesizeAll
SynthEntry(n, resp) ==
    LET r == synthesizeNarrative(n, resp)
    IN  IF r.threw
        THEN [name |-> n.name,
              explanation |-> n.explanation,
              buildIdeas |-> n.buildIdeas]
        ELSE r.value

\* map.set(key, value)
MapSet(map, key, value) ==
    [k \in DOMAIN map \cup {key} |-> IF k = key THEN value ELSE map[k]]

\* the scan results main() holds when it reaches the aggregation step
RunXInputs ==
    { [topicClusters |-> <<XStrong, XMedium>>],
      [topicClusters |-> <<XMedium>>] }

RunGHInputs ==
    { [topicClusters |-> <<GStrong, GMedium>>],
      [topicClusters |-> <<GWeak>>] }

InitRun ==
    /\ keyFile \in BOOLEAN
    /\ serve \in BOOLEAN
    /\ server = FALSE
    /\ exitCode = -1
    /\ xResult \in RunXInputs
    /\ ghResult \in RunGHInputs
    /\ rpc = "import"
    /\ report = <<>>
    /\ synthIdx = 0
    /\ synthResults = <<>>
    /\ responses = <<>>
    /\ files = <<>>
    /\ now = 0
    /\ results = <<>>
    /\ FnIdle /\ IdeaIdle /\ TermIdle /\ ScanIdle

\* the imports of run.ts are evaluated before its body: llm-synthesis.ts
\* reads the key file at its top level, and readFileSync throws when the
\* file does not exist
LoadModules ==
    /\ rpc = "import"
    /\ rpc' = IF keyFile THEN "scan" ELSE "crashed"
    /\ exitCode' = IF keyFile THEN -1 ELSE 1
    /\ UNCHANGED <<keyFile, serve, server, report, synthIdx, synthResults,
                   responses, files>>
    /\ UNCHANGED <<fnVars, aggVars, ideaVars, termVars, scanVars>>

\* main() up to the aggregation: the scan results are read from the cache
\* or scanned; process.exit(1) when the cached data or the X credentials
\* are missing, and from main().catch when a scanner throws
RunScan ==
    /\ rpc = "scan"
    /\ \/ rpc' = "aggregate" /\ exitCode' = exitCode
       \/ rpc' = "failed" /\ exitCode' = 1
    /\ UNCHANGED <<keyFile, serve, server, report, synthIdx, synthResults,
                   responses, files>>
    /\ UNCHANGED <<fnVars, aggVars, ideaVars, termVars, scanVars>>

\* main(): aggregateSignals(xResult, ghResult), then synthesizeAll starts
RunAggregate ==
    /\ rpc = "aggregate"
    /\ report' = aggregateSignals(xResult, ghResult, now, now, now)
    /\ synthIdx' = 1
    /\ rpc' = "synth"
    /\ UNCHANGED <<keyFile, serve, server, exitCode, synthResults, responses,
                   files>>
    /\ UNCHANGED <<fnVars, aggVars, ideaVars, termVars, scanVars>>

\* one pass of the loop of synthesizeAll
SynthesizeNext ==
    /\ rpc = "synth"
    /\ synthIdx <= Len(report.narratives)
    /\ \E resp \in Responses :
          LET n == report.narratives[synthIdx]
          IN  /\ synthResults' = MapSet(synthResults, n.name,
                                        SynthEntry(n, resp))
              /\ responses' = Append(responses, resp)
    /\ synthIdx' = synthIdx + 1
    /\ UNCHANGED <<keyFile, serve, server, exitCode, rpc, report, files>>
    /\ UNCHANGED <<fnVars, aggVars, ideaVars, termVars, scanVars>>

\* faulty variant: each narrative replaced by its synthesis result
ApplySynthesis_replaceRecord ==
    /\ rpc = "synth"
    /\ synthIdx > Len(report.narratives)
    /\ report' =
          [report EXCEPT !.narratives =
              [k \in DOMAIN report.narratives |->
                  LET n == report.narratives[k]
                  IN  IF n.name \in DOMAIN synthResults
                      THEN synthResults[n.name]
                      ELSE n]]
    /\ rpc' = "write"
    /\ UNCHANGED <<keyFile, serve, server, exitCode, synthIdx, synthResults,
                   responses, files>>
    /\ UNCHANGED <<fnVars, aggVars, ideaVars, termVars, scanVars>>

\* synthesizeAll returns; main() copies each result into its narrative
ApplySynthesis ==
    /\ rpc = "synth"
    /\ synthIdx > Len(report.narratives)
    /\ report' =
          [report EXCEPT !.narratives =
              [k \in DOMAIN report.narratives |->
                  LET n == report.narratives[k]
                  IN  IF n.name \in DOMAIN synthResults
                      THEN [n EXCEPT
                              !.explanation = synthResults[n.name].explanation,
                              !.buildIdeas = synthResults[n.name].buildIdeas]
                      ELSE n]]
    /\ rpc' = "write"
    /\ UNCHANGED <<keyFile, serve, server, exitCode, synthIdx, synthResults,
                   responses, files>>
    /\ UNCHANGED <<fnVars, aggVars, ideaVars, termVars, scanVars>>

\* main() writes narratives.json, index.html and api.json, and starts the
\* server when --serve was given
WriteOutputs ==
    /\ rpc = "write"
    /\ files' = [f \in {"narratives.json", "index.html", "api.json"} |->
                    IF f = "index.html" THEN [html |-> report] ELSE report]
    /\ server' = serve
    /\ rpc' = "done"
    /\ UNCHANGED <<keyFile, serve, exitCode, report, synthIdx, synthResults,
                   responses>>
    /\ UNCHANGED <<fnVars, aggVars, ideaVars, termVars, scanVars>>

\* faulty variant: the timer no longer pending once main() has returned
HardTimeout_clearedWhenDone ==
    /\ rpc \in {"scan", "aggregate", "synth", "write"}
    /\ rpc' = "exited"
    /\ exitCode' = 0
    /\ UNCHANGED <<keyFile, serve, server, report, synthIdx, synthResults,
                   responses, files>>
    /\ UNCHANGED <<fnVars, aggVars, ideaVars, termVars, scanVars>>

\* setTimeout(() => process.exit(0), 120_000): the timer set by the body of
\* run.ts ends the process wherever main() is, and after main() has
\* returned, with or without a server
HardTimeout ==
    /\ rpc \in {"scan", "aggregate", "synth", "write", "done"}
    /\ rpc' = "exited"
    /\ exitCode' = 0
    /\ UNCHANGED <<keyFile, serve, server, report, synthIdx, synthResults,
                   responses, files>>
    /\ UNCHANGED <<fnVars, aggVars, ideaVars, termVars, scanVars>>

NextRun ==
    \/ LoadModules
    \/ RunScan
    \/ RunAggregate
    \/ SynthesizeNext
    \/ ApplySynthesis
    \/ WriteOutputs
    \/ HardTimeout

SpecRun == InitRun /\ [][NextRun]_vars

\* the module loader finishes, and a pending timer fires
SpecRunFair ==
    SpecRun /\ WF_vars(LoadModules) /\ WF_vars(HardTimeout)

\* the records aggregateSignals computes from the scan results
RuleBased == aggregateSignals(xResult, ghResult, 0, 0, 0).narratives

\* the call for a narrative fails: the fetch throws, the API answers with
\* an error status, or the answer cannot be parsed
Failed(resp) ==
    \/ resp.kind \in {"fetch_throws", "http_error", "no_content"}
    \/ /\ resp.kind = "text"
       /\ \/ resp.wrapper \in {"broken", "none"}
          \/ /\ "build_ideas" \in DOMAIN resp.payload
             /\ ~resp.payload.build_ideas.array

\* C13: in synthesizeAll, when the synthesis of one narrative fails, the
\* result for that narrative is its existing rule-based explanation and
\* buildIdeas, the loop goes on to the remaining narratives, and the
\* returned map has exactly one entry for every input narrative name; no
\* single failure aborts the pipeline.
C13_FallbackPerNarrative ==
    LET rb == RuleBased
        names == [k \in DOMAIN rb |-> rb[k].name]
    IN  /\ rpc \in {"synth", "write", "done", "exited"} /\ synthIdx > 0 =>
              /\ Len(responses) = synthIdx - 1
              /\ DOMAIN synthResults = {names[k] : k \in DOMAIN responses}
              /\ \A k \in DOMAIN responses :
                    Failed(responses[k]) =>
                       synthResults[names[k]] =
                          [name |-> names[k],
                           explanation |-> rb[k].explanation,
                           buildIdeas |-> rb[k].buildIdeas]
        /\ rpc \in {"write", "done"} =>
              /\ DOMAIN synthResults = {names[k] : k \in DOMAIN rb}
              /\ \A k \in DOMAIN responses :
                    Failed(responses[k]) => report.narratives[k] = rb[k]
        /\ keyFile => rpc # "crashed"

\* a finished run in which the first call failed and a later call
\* succeeded
C13_Witness ==
    /\ rpc = "done"
    /\ Len(responses) >= 3
    /\ Failed(responses[1])
    /\ ~Failed(responses[2])
    /\ Failed(responses[3])
    /\ report.narratives[2].explanation = LlmText
    /\ DOMAIN files = {"narratives.json", "index.html", "api.json"}

\* C14: when no Anthropic API key is available (the key file does not
\* exist), the runner still completes the pipeline and writes
\* narratives.json, index.html and api.json, with each narrative carrying
\* the rule-based explanation and build ideas computed by the aggregator.
C14_RunsWithoutKey ==
    ~keyFile =>
       /\ rpc # "crashed"
       /\ rpc = "done" =>
             /\ DOMAIN files = {"narratives.json", "index.html", "api.json"}
             /\ files["narratives.json"].narratives = RuleBased

\* a run without the key file that ends at the imports, with no file
\* written
C14_CrashedAtImport ==
    /\ ~keyFile
    /\ rpc = "crashed"
    /\ report = <<>>
    /\ files = <<>>

(***************************************************************************)
(* Build ideas                                                             *)
(***************************************************************************)
\* the names generateBuildIdeas is called with: the names of the
\* alignment table, and names the idea table has no entry for
IdeaNames ==
    CannedNames \cup {"Unknown Narrative", "Solana Gaming", "", "constructor"}

\* key-term lists of the two clusters
TermLists ==
    {<<>>, <<"privacy">>, <<"agent", "payments">>, <<"payments", "agent">>}

InitIdeas ==
    /\ ideaName \in IdeaNames
    /\ ideaSocialTerms \in TermLists
    /\ ideaDevTerms \in TermLists
    /\ ideaOut = <<>>
    /\ ipc = "call"
    /\ FnIdle /\ AggIdle /\ RunIdle /\ TermIdle /\ ScanIdle

BuildIdeasStep ==
    /\ ipc = "call"
    /\ ideaOut' = generateBuildIdeas(ideaName, ideaSocialTerms, ideaDevTerms)
    /\ ipc' = "done"
    /\ UNCHANGED <<ideaName, ideaSocialTerms, ideaDevTerms>>
    /\ UNCHANGED <<fnVars, aggVars, runVars, termVars, scanVars>>

NextIdeas == BuildIdeasStep

SpecIdeas == InitIdeas /\ [][NextIdeas]_vars

\* C15: every narrative emitted by aggregateSignals carries between 3 and
\* 5 build ideas, for every narrative name of the alignment table.
C15_ThreeToFiveIdeas ==
    /\ \A r \in DOMAIN results :
          \A k \in DOMAIN results[r].narratives :
             Len(results[r].narratives[k].buildIdeas) \in 3 .. 5
    /\ results # <<>> =>
          \A e \in Entries :
             Len(generateBuildIdeas(e.name, <<>>, <<>>)) \in 3 .. 5

\* a run that emits the "Restaking & LSTs" narrative with two build ideas
C15_TwoIdeasEmitted ==
    /\ results # <<>>
    /\ \E k \in DOMAIN results[1].narratives :
          /\ results[1].narratives[k].name = "Restaking & LSTs"
          /\ Len(results[1].narratives[k].buildIdeas) = 2

\* what C16 says of one returned value
IdeasContract(name, out) ==
    /\ Len(out) \in 1 .. 5
    /\ \A k \in DOMAIN out : out[k].difficulty \in {"easy", "medium", "hard"}
    /\ name \notin CannedNames =>
          /\ Len(out) = 1
          /\ out[1].title = "Narrative Tracker"
          /\ out[1].description = name
    /\ \A st, dt \in TermLists : generateBuildIdeas(name, st, dt) = out

C16_ContractOffInheritedNames ==
    ipc = "done" /\ ideaName \notin ObjectPrototypeKeys
       => IdeasContract(ideaName, ideaOut)

(***************************************************************************)
(* extractKeyTerms (x-scanner.ts and github-scanner.ts)                    *)
(*                                                                         *)
(* A text is the sequence of its pieces: the maximal runs of letters and   *)
(* digits (words), and URLs.  Whatever stands between two pieces           *)
(* (whitespace, punctuation, hyphens) is what both functions replace by    *)
(* white space and split on.                                               *)
(***************************************************************************)
Word(raw) == [kind |-> "word", raw |-> raw, parts |-> <<>>]

\* "https://a.b/c": parts are the runs of letters and digits inside it
Url(parts) == [kind |-> "url", raw |-> "", parts |-> parts]

\* String.prototype.toLowerCase, on the words of the texts below
ToLowerCase(w) ==
    CASE w = "Privacy" -> "privacy"
      [] w = "PRIVACY" -> "privacy"
      [] w = "Solana" -> "solana"
      [] w = "Agents" -> "agents"
      [] w = "USDC" -> "usdc"
      [] w = "With" -> "with"
      [] w = "ZK" -> "zk"
      [] OTHER -> w

XStopWords ==
    {"the", "a", "an", "is", "are", "was", "were", "be", "been", "being",
     "have", "has", "had", "do", "does", "did", "will", "would", "could",
     "should", "may", "might", "can", "shall", "to", "of", "in", "for",
     "on", "with", "at", "by", "from", "as", "into", "through", "during",
     "before", "after", "above", "below", "and", "but", "or", "nor", "not",
     "so", "yet", "both", "either", "neither", "each", "every", "all",
     "this", "that", "these", "those", "it", "its", "they", "them", "their",
     "we", "us", "our", "you", "your", "he", "him", "his", "she", "her",
     "i", "me", "my", "what", "which", "who", "whom", "how", "when", "where",
     "why", "if", "than", "just", "more", "most", "very", "too", "also",
     "about", "up", "out", "no", "https", "co", "rt", "amp"}

GHStopWords ==
    {"the", "a", "an", "for", "and", "with", "that", "this", "from",
     "solana", "sol", "built", "using", "based"}

StopWords(stream) == IF stream = "x" THEN XStopWords ELSE GHStopWords

\* the text extractKeyTerms reads: s.text, or `${r.name} ${r.description}`
TextOf(stream, item) ==
    IF stream = "x" THEN item.text ELSE item.name \o item.description

\* the lower-case words one piece leaves after the replace calls and the
\* split: x-scanner removes URLs first, github-scanner does not
PieceWords(stream, piece) ==
    IF piece.kind = "word" THEN <<ToLowerCase(piece.raw)>>
    ELSE IF stream = "x" THEN <<>>
    ELSE [k \in DOMAIN piece.parts |-> ToLowerCase(piece.parts[k])]

RECURSIVE SplitWords(_, _)
SplitWords(stream, text) ==
    IF text = <<>> THEN <<>>
    ELSE PieceWords(stream, Head(text)) \o SplitWords(stream, Tail(text))

\* faulty variant: the stop-word test left out
KeepWord_noStopWords(stream, w) == Len(w) > 3

\* .filter((w) => w.length > 3 && !stopWords.has(w))
KeepWord(stream, w) == Len(w) > 3 /\ w \notin StopWords(stream)

WordsOf(stream, item) ==
    SelectSeq(SplitWords(stream, TextOf(stream, item)),
              LAMBDA w : KeepWord(stream, w))

\* wordFreq.set(w, (wordFreq.get(w) ?? 0) + 1): a Map keeps its keys in
\* insertion order
MapIncr(entries, w) ==
    IF \E i \in DOMAIN entries : entries[i].word = w
    THEN [i \in DOMAIN entries |->
             IF entries[i].word = w
             THEN [word |-> w, count |-> entries[i].count + 1]
             ELSE entries[i]]
    ELSE Append(entries, [word |-> w, count |-> 1])

RECURSIVE CountWords(_, _)
CountWords(words, entries) ==
    IF words = <<>> THEN entries
    ELSE CountWords(Tail(words), MapIncr(entries, Head(words)))

RECURSIVE CountItems(_, _, _)
CountItems(stream, items, entries) ==
    IF items = <<>> THEN entries
    ELSE CountItems(stream, Tail(items),
                    CountWords(WordsOf(stream, Head(items)), entries))

\* faulty variant: an unstable sort, an entry goes before its equals
RECURSIVE InsertByCount_unstable(_, _)
InsertByCount_unstable(e, sorted) ==
    IF sorted = <<>> THEN <<e>>
    ELSE IF Head(sorted).count > e.count
         THEN <<Head(sorted)>> \o InsertByCount_unstable(e, Tail(sorted))
         ELSE <<e>> \o sorted

\* .sort((a, b) => b[1] - a[1]): stable, descending by count
RECURSIVE InsertByCount(_, _)
InsertByCount(e, sorted) ==
    IF sorted = <<>> THEN <<e>>
    ELSE IF Head(sorted).count >= e.count
         THEN <<Head(sorted)>> \o InsertByCount(e, Tail(sorted))
         ELSE <<e>> \o sorted

RECURSIVE SortByCount(_, _)
SortByCount(todo, sorted) ==
    IF todo = <<>> THEN sorted
    ELSE SortByCount(Tail(todo), InsertByCount(Head(todo), sorted))

\* .slice(0, 10)
MaxKeyTerms == 10

extractKeyTerms(stream, items) ==
    LET wordFreq == CountItems(stream, items, <<>>)
        frequent == SelectSeq(wordFreq, LAMBDA e : e.count >= 2)
        sorted == SortByCount(frequent, <<>>)
        top == SubSeq(sorted, 1, IntMin(Len(sorted), MaxKeyTerms))
    IN  [k \in DOMAIN top |-> top[k].word]

\* tweets of one cluster
XItem1 ==
    [text |-> << Word("Privacy"), Word("on"), Word("Solana"), Word("ZK"),
                 Word("proofs"), Word("shielded"), Word("transfers"),
                 Word("confidential"), Word("tokens"), Word("encrypted"),
                 Word("memos"), Word("private"), Word("swaps"),
                 Word("stealth"), Word("wallets"),
                 Url(<<"https", "t", "co", "abcd">>) >>]

XItem2 ==
    [text |-> << Word("PRIVACY"), Word("with"), Word("Agents"),
                 Word("With"), Word("privacy") >>]

XItem3 ==
    [text |-> << Word("Agents"), Word("pay"), Word("USDC"), Word("this"),
                 Word("week"), Word("agents"),
                 Url(<<"https", "t", "co", "abcd">>) >>]

XItem4 ==
    [text |-> << Word("wallets"), Word("stealth"), Word("swaps"),
                 Word("wallets") >>]

\* repos of one cluster
GHItem1 ==
    [name |-> << Word("solana"), Word("privacy"), Word("kit") >>,
     description |-> << Word("Privacy"), Word("toolkit"), Word("for"),
                        Word("Solana"), Word("built"), Word("with"),
                        Word("Anchor"),
                        Url(<<"https", "github", "com", "acme",
                              "privacy">>) >>]

GHItem2 ==
    [name |-> << Word("agent"), Word("wallet") >>,
     description |-> << Word("Agents"), Word("wallet"), Word("toolkit"),
                        Word("using"), Word("USDC"), Word("payments"),
                        Url(<<"https", "github", "com", "acme",
                              "wallet">>) >>]

GHItem3 ==
    [name |-> << Word("defi"), Word("suite") >>,
     description |-> << Word("lending"), Word("borrowing"), Word("staking"),
                        Word("swaps"), Word("yield"), Word("vaults"),
                        Word("oracle"), Word("bridge"), Word("rewards"),
                        Word("governance"), Word("treasury"),
                        Word("analytics") >>]

GHItem4 ==
    [name |-> << Word("treasury"), Word("analytics") >>,
     description |-> << >>]

TermItemsOf(stream) ==
    IF stream = "x" THEN {XItem1, XItem2, XItem3, XItem4}
    ELSE {GHItem1, GHItem2, GHItem3, GHItem4}

\* the item sequences of at most MaxItems items
ItemSeqs(S) == UNION {[1 .. n -> S] : n \in 0 .. MaxItems}

InitTerms ==
    /\ termStream \in {"x", "gh"}
    /\ termItems \in ItemSeqs(TermItemsOf(termStream))
    /\ termOut = <<>>
    /\ termAgain = <<>>
    /\ tpc = "first"
    /\ FnIdle /\ AggIdle /\ RunIdle /\ IdeaIdle /\ ScanIdle

FirstCall ==
    /\ tpc = "first"
    /\ termOut' = extractKeyTerms(termStream, termItems)
    /\ tpc' = "second"
    /\ UNCHANGED <<termStream, termItems, termAgain>>
    /\ UNCHANGED <<fnVars, aggVars, runVars, ideaVars, scanVars>>

SecondCall ==
    /\ tpc = "second"
    /\ termAgain' = extractKeyTerms(termStream, termItems)
    /\ tpc' = "done"
    /\ UNCHANGED <<termStream, termItems, termOut>>
    /\ UNCHANGED <<fnVars, aggVars, runVars, ideaVars, scanVars>>

NextTerms == FirstCall \/ SecondCall

SpecTerms == InitTerms /\ [][NextTerms]_vars

\* the lower-case words of item i, before the filter
ItemTokens(i) == SplitWords(termStream, TextOf(termStream, termItems[i]))

\* the places <<item, index>> where the token t stands in the items
PlacesOf(t) ==
    {p \in UNION {{<<i, j>> : j \in DOMAIN ItemTokens(i)} :
                     i \in DOMAIN termItems} :
        ItemTokens(p[1])[p[2]] = t}

AllTokens ==
    UNION {{ItemTokens(i)[j] : j \in DOMAIN ItemTokens(i)} :
              i \in DOMAIN termItems}

Occurrences(t) == Cardinality(PlacesOf(t))

Earlier(p, q) == p[1] < q[1] \/ (p[1] = q[1] /\ p[2] < q[2])

FirstSeen(t) ==
    CHOOSE p \in PlacesOf(t) : \A q \in PlacesOf(t) : p = q \/ Earlier(p, q)

\* the tokens that qualify as key terms
Eligible ==
    {t \in AllTokens :
        Len(t) > 3 /\ t \notin StopWords(termStream) /\ Occurrences(t) >= 2}

RanksBefore(a, b) ==
    \/ Occurrences(a) > Occurrences(b)
    \/ /\ Occurrences(a) = Occurrences(b)
       /\ Earlier(FirstSeen(a), FirstSeen(b))

TermsReturned == tpc # "first"

\* C19: for every item list, each extractKeyTerms (social and developer)
\* returns at most 10 tokens, with no duplicates, each longer than 3
\* characters, none in that stream's stop-word set, and each occurring at
\* least twice in total across the items of the cluster.
C19_KeyTermsWellFormed ==
    TermsReturned =>
       /\ Len(termOut) <= 10
       /\ \A i, j \in DOMAIN termOut : i # j => termOut[i] # termOut[j]
       /\ \A i \in DOMAIN termOut :
             /\ Len(termOut[i]) > 3
             /\ termOut[i] \notin StopWords(termStream)
             /\ Occurrences(termOut[i]) >= 2

\* a call that returns 10 tokens out of more than 10 that qualify, on
\* items that also hold a stop word and a short word at least twice
C19_Witness ==
    /\ TermsReturned
    /\ Len(termOut) = 10
    /\ Cardinality(Eligible) > 10
    /\ \E t \in AllTokens :
          t \in StopWords(termStream) /\ Len(t) > 3 /\ Occurrences(t) >= 2
    /\ \E t \in AllTokens : Len(t) <= 3 /\ Occurrences(t) >= 2

\* C20: the list returned by extractKeyTerms is ordered by non-increasing
\* frequency, tokens of equal frequency appear in the order of their first
\* occurrence in the input item sequence, the tokens dropped by the top-10
\* cut are exactly those ranked after the tenth in that order, and running
\* it twice on the same item sequence gives the same list.
C20_KeyTermsOrder ==
    /\ TermsReturned =>
          /\ \A i, j \in DOMAIN termOut :
                i < j => RanksBefore(termOut[i], termOut[j])
          /\ {termOut[i] : i \in DOMAIN termOut} \subseteq Eligible
          /\ Len(termOut) = IntMin(Cardinality(Eligible), 10)
          /\ \A t \in Eligible :
                (\A i \in DOMAIN termOut : termOut[i] # t) =>
                   \A i \in DOMAIN termOut : RanksBefore(termOut[i], t)
    /\ tpc = "done" => termAgain = termOut

\* two calls on items where the cut drops tokens and where a token seen
\* later outranks, by frequency, tokens seen before it, among ties
C20_Witness ==
    /\ tpc = "done"
    /\ Cardinality(Eligible) > 10
    /\ \E i, j \in DOMAIN termOut :
          /\ i < j
          /\ Occurrences(termOut[i]) > Occurrences(termOut[j])
          /\ Earlier(FirstSeen(termOut[j]), FirstSeen(termOut[i]))
    /\ \E i, j \in DOMAIN termOut :
          i < j /\ Occurrences(termOut[i]) = Occurrences(termOut[j])

(***************************************************************************)
(* scanX and scanGitHub: the fetch loop, then deduplication and clustering *)
(***************************************************************************)
\* the topics of topicPatterns, in the order of the object literal
XTopics ==
    << "Privacy & Confidential Computing", "AI Agent Infrastructure",
       "Agent Commerce & Payments", "DePIN & Physical Infrastructure",
       "Dev Tooling & AI-Assisted Building", "Restaking & Liquid Staking",
       "Cross-chain & Interoperability" >>

GHTopics ==
    << "AI Agent Infrastructure", "Privacy & Confidential Computing",
       "Payments & Commerce", "DePIN", "Dev Tooling", "DeFi & Financial" >>

TopicsOf(stream) == IF stream = "x" THEN XTopics ELSE GHTopics

\* likes + rts * 2 + replies * 1.5
computeEngagement(likes, rts, replies) ==
    RAdd(R(likes + rts * 2), Rat(replies * 3, 2))

\* a tweet of a search result; topics are the topics one of whose patterns
\* matches its text
ApiTweet(id, authorId, metrics, likes, rts, replies, topics, text) ==
    [id |-> id, authorId |-> authorId, metrics |-> metrics, likes |-> likes,
     rts |-> rts, replies |-> replies, topics |-> topics, text |-> text]

\* an item of a repository search result; topics are the topics one of
\* whose patterns matches its name or description
ApiRepo(fullName, stars, descLength, spam, topics, name, description) ==
    [id |-> fullName, stars |-> stars, descLength |-> descLength,
     spam |-> spam, topics |-> topics, name |-> name,
     description |-> description]

Tweet1 ==
    ApiTweet("t1", "a1", TRUE, 100, 0, 0,
             {"Privacy & Confidential Computing"},
             << Word("Privacy"), Word("shielded"), Word("privacy") >>)
Tweet2 ==
    ApiTweet("t2", "a2", TRUE, 40, 10, 0, {"AI Agent Infrastructure"},
             << Word("Agents"), Word("autonomous") >>)
Tweet3 ==
    ApiTweet("t3", "a3", TRUE, 57, 0, 2, {"AI Agent Infrastructure"},
             << Word("agents"), Word("autonomous") >>)
Tweet4 ==
    ApiTweet("t4", "a2", TRUE, 10, 2, 3, {"AI Agent Infrastructure"},
             << Word("agents") >>)
Tweet5 ==
    ApiTweet("t5", "a1", TRUE, 17, 0, 2,
             {"AI Agent Infrastructure", "Agent Commerce & Payments"},
             << Word("agents"), Word("payments"), Word("USDC") >>)
Tweet6 ==
    ApiTweet("t6", "a4", FALSE, 0, 0, 0, {"AI Agent Infrastructure"},
             << Word("agents") >>)
Tweet7 ==
    ApiTweet("t7", "a5", TRUE, 200, 0, 0, {"Agent Commerce & Payments"},
             << Word("payments"), Word("USDC") >>)

RepoA ==
    ApiRepo("acme/agent-kit", 50, 40, FALSE, {"AI Agent Infrastructure"},
            << Word("agent"), Word("kit") >>,
            << Word("Agents"), Word("toolkit"), Word("agents") >>)
RepoSpam ==
    ApiRepo("spam/airdrop", 500, 40, TRUE, {"DeFi & Financial"},
            << Word("airdrop") >>, << Word("claim"), Word("airdrop") >>)
RepoB ==
    ApiRepo("zk/privacy-a", 30, 25, FALSE,
            {"Privacy & Confidential Computing"},
            << Word("privacy") >>, << Word("shielded"), Word("privacy") >>)
RepoC ==
    ApiRepo("zk/privacy-b", 40, 25, FALSE,
            {"Privacy & Confidential Computing"},
            << Word("privacy") >>, << Word("shielded"), Word("tokens") >>)
RepoD ==
    ApiRepo("defi/tool", 0, 12, FALSE, {"Dev Tooling", "DeFi & Financial"},
            << Word("defi"), Word("tool") >>, << Word("swap"), Word("sdk") >>)
RepoShort ==
    ApiRepo("x/y", 7, 3, FALSE, {"Dev Tooling"},
            << Word("y") >>, << Word("sdk") >>)

\* what the API returns for query q when the request succeeds
ResultOf(stream, q) ==
    IF stream = "x"
    THEN CASE q = 1 -> << Tweet1, Tweet4 >>
           [] q = 2 -> << Tweet2, Tweet3, Tweet6 >>
           [] q = 3 -> << Tweet3, Tweet5, Tweet7 >>
           [] OTHER -> << Tweet1, Tweet2 >>
    ELSE CASE q = 1 -> << RepoA, RepoSpam >>
           [] q = 2 -> << RepoB, RepoC, RepoA >>
           [] q = 3 -> << RepoD, RepoShort >>
           [] OTHER -> << RepoB >>

\* how one request ends.  scanX: the search returns, or throws with code
\* 429, or throws otherwise.  scanGitHub: the response is OK, or has status
\* 403, or another non-OK status, or fetch / res.json() throws.
Outcomes(stream) ==
    IF stream = "x" THEN {"ok", "rate_limit", "throws"}
    ELSE {"ok", "rate_limit", "http_error", "throws"}

\* the topics one of whose patterns matches the text of query q of
\* scanGitHub: "solana+agent", "solana+privacy", "solana+payments",
\* "anchor+solana", "solana+depin"
QueryTopics(q) ==
    CASE q = 1 -> {"AI Agent Infrastructure"}
      [] q = 2 -> {"Privacy & Confidential Computing"}
      [] q = 3 -> {"Payments & Commerce"}
      [] q = 5 -> {"DePIN"}
      [] OTHER -> {}

\* the repo scanGitHub pushes for an item of the result of query q
GHRepoOf(r, q) ==
    [id |-> r.id, stars |-> r.stars, descLength |-> r.descLength,
     spam |-> r.spam, topics |-> r.topics, name |-> r.name,
     description |-> r.description, query |-> q]

\* the signal scanX pushes for a tweet
XSignalOf(t, q) ==
    [id |-> t.id, authorId |-> t.authorId, likes |-> t.likes,
     retweets |-> t.rts, replies |-> t.replies, query |-> q,
     engagementScore |-> computeEngagement(t.likes, t.rts, t.replies),
     topics |-> t.topics, text |-> t.text]

\* faulty variant: no engagement threshold
RECURSIVE Pushed_noThreshold(_, _, _)
Pushed_noThreshold(stream, items, q) ==
    IF items = <<>> THEN <<>>
    ELSE LET t == Head(items)
             rest == Pushed_noThreshold(stream, Tail(items), q)
         IN  IF stream = "x"
             THEN IF ~t.metrics THEN rest
                  ELSE <<XSignalOf(t, q)>> \o rest
             ELSE <<GHRepoOf(t, q)>> \o rest

\* the items one successful pass of the loop pushes
RECURSIVE Pushed(_, _, _)
Pushed(stream, items, q) ==
    IF items = <<>> THEN <<>>
    ELSE LET t == Head(items)
             rest == Pushed(stream, Tail(items), q)
         IN  IF stream = "x"
             THEN IF ~t.metrics THEN rest
                  ELSE IF RLt(computeEngagement(t.likes, t.rts, t.replies),
                              R(20))
                  THEN rest
                  ELSE <<XSignalOf(t, q)>> \o rest
             ELSE <<GHRepoOf(t, q)>> \o rest

\* the pacing delay in milliseconds: 200, or 6500 for scanGitHub without
\* a token
PacingDelay(stream, token) ==
    IF stream = "gh" /\ ~token THEN 6500 ELSE 200

\* the time a pass of the loop sleeps after its request: the sleep is the
\* last statement of the try block, reached when the request succeeded
SleptAfter(stream, token, outcome) ==
    IF outcome = "ok" THEN PacingDelay(stream, token) ELSE 0

\* faulty variant: any failure ends the loop
LoopContinues_stopOnFailure(stream, outcome) == outcome = "ok"

\* whether the loop goes on to the next query: `break` on 403 / code 429
LoopContinues(stream, outcome) == outcome # "rate_limit"

\* deduplicate by tweet ID / by full_name: the first of each id is kept
RECURSIVE Dedupe(_, _)
Dedupe(items, seen) ==
    IF items = <<>> THEN <<>>
    ELSE IF Head(items).id \in seen THEN Dedupe(Tail(items), seen)
    ELSE <<Head(items)>> \o Dedupe(Tail(items), seen \cup {Head(items).id})

\* scanGitHub: repos with a description of 10 characters or more that
\* does not look like spam
KeepRepo(r) == r.descLength >= 10 /\ ~r.spam

\* the value the items are sorted by, descending, before clustering
ItemWeight(stream, item) ==
    IF stream = "x" THEN item.engagementScore ELSE R(item.stars)

RECURSIVE InsertByWeight(_, _, _)
InsertByWeight(stream, item, sorted) ==
    IF sorted = <<>> THEN <<item>>
    ELSE IF RLeq(ItemWeight(stream, item), ItemWeight(stream, Head(sorted)))
         THEN <<Head(sorted)>> \o InsertByWeight(stream, item, Tail(sorted))
         ELSE <<item>> \o sorted

RECURSIVE SortByWeight(_, _, _)
SortByWeight(stream, todo, sorted) ==
    IF todo = <<>> THEN sorted
    ELSE SortByWeight(stream, Tail(todo),
                      InsertByWeight(stream, Head(todo), sorted))

RECURSIVE SumWeights(_, _)
SumWeights(stream, items) ==
    IF items = <<>> THEN R(0)
    ELSE RAdd(ItemWeight(stream, Head(items)),
              SumWeights(stream, Tail(items)))

\* the cluster pushed for a topic with matching items
ClusterOf(stream, topic, matching) ==
    LET total == SumWeights(stream, matching)
        avg == RMul(total, Rat(1, Len(matching)))
    IN  IF stream = "x"
        THEN [topic |-> topic,
              tweetCount |-> Len(matching),
              avgEngagement |-> RRound(avg),
              totalEngagement |-> RRound(total),
              topTweets |-> Slice(matching, 5),
              keyTerms |-> extractKeyTerms(stream, matching),
              uniqueAuthors |->
                 Cardinality({matching[k].authorId : k \in DOMAIN matching})]
        ELSE [topic |-> topic,
              repoCount |-> Len(matching),
              totalStars |-> RRound(total),
              avgStars |-> Rat(RRound(RMul(avg, R(10))), 10),
              topRepos |-> Slice(matching, 5),
              keyTerms |-> extractKeyTerms(stream, matching)]

\* patterns.some((p) => p.test(text)): the text is the tweet's text, or
\* the repo's name, description and query
Matches(stream, topic, item) ==
    \/ topic \in item.topics
    \/ stream = "gh" /\ topic \in QueryTopics(item.query)

\* faulty variant: an item is counted in the first topic it matches only
RECURSIVE BuildClusters_exclusive(_, _, _)
BuildClusters_exclusive(stream, items, k) ==
    IF k > Len(TopicsOf(stream)) THEN <<>>
    ELSE LET topic == TopicsOf(stream)[k]
             matching == SelectSeq(items,
                                   LAMBDA i : Matches(stream, topic, i))
             others == SelectSeq(items,
                                 LAMBDA i : ~Matches(stream, topic, i))
             rest == BuildClusters_exclusive(stream, others, k + 1)
         IN  IF matching = <<>> THEN rest
             ELSE <<ClusterOf(stream, topic, matching)>> \o rest

\* the loop over topicPatterns: one cluster per topic with a match
RECURSIVE BuildClusters(_, _, _)
BuildClusters(stream, items, k) ==
    IF k > Len(TopicsOf(stream)) THEN <<>>
    ELSE LET topic == TopicsOf(stream)[k]
             matching == SelectSeq(items,
                                   LAMBDA i : Matches(stream, topic, i))
             rest == BuildClusters(stream, items, k + 1)
         IN  IF matching = <<>> THEN rest
             ELSE <<ClusterOf(stream, topic, matching)>> \o rest

\* faulty variant: the social clusters weighed by total engagement
ClusterStrength_total(stream, c) ==
    IF stream = "x" THEN c.tweetCount * 10 + c.totalEngagement
    ELSE c.repoCount * 5 + c.totalStars

\* scoreA / scoreB of the comparator of clusters.sort
ClusterStrength(stream, c) ==
    IF stream = "x" THEN c.tweetCount * 10 + c.avgEngagement
    ELSE c.repoCount * 5 + c.totalStars

RECURSIVE InsertByStrength(_, _, _)
InsertByStrength(stream, c, sorted) ==
    IF sorted = <<>> THEN <<c>>
    ELSE IF ClusterStrength(stream, Head(sorted)) >= ClusterStrength(stream, c)
         THEN <<Head(sorted)>> \o InsertByStrength(stream, c, Tail(sorted))
         ELSE <<c>> \o sorted

RECURSIVE SortByStrength(_, _, _)
SortByStrength(stream, todo, sorted) ==
    IF todo = <<>> THEN sorted
    ELSE SortByStrength(stream, Tail(todo),
                        InsertByStrength(stream, Head(todo), sorted))

\* clusterByTopic / clusterReposByTopic
clusterByTopic(stream, items) ==
    SortByStrength(stream, BuildClusters(stream, items, 1), <<>>)

\* what follows the loop: deduplicate, filter (scanGitHub), sort, cluster
ScanResultOf(stream, all) ==
    LET deduped == Dedupe(all, {})
        kept == IF stream = "x" THEN deduped
                ELSE SelectSeq(deduped, KeepRepo)
        sorted == SortByWeight(stream, kept, <<>>)
    IN  [items |-> sorted, topicClusters |-> clusterByTopic(stream, sorted)]

InitScan ==
    /\ scanStream \in {"x", "gh"}
    /\ ghToken \in (IF scanStream = "gh" THEN BOOLEAN ELSE {FALSE})
    /\ queryIdx = 1
    /\ issued = <<>>
    /\ collected = <<>>
    /\ scanOut = <<>>
    /\ spc = "loop"
    /\ FnIdle /\ AggIdle /\ RunIdle /\ IdeaIdle /\ TermIdle

\* one pass of the loop over SCAN_QUERIES
ScanQuery ==
    /\ spc = "loop"
    /\ queryIdx <= MaxQueries
    /\ \E o \in Outcomes(scanStream) :
          /\ issued' = Append(issued,
                               [query |-> queryIdx, outcome |-> o,
                                slept |-> SleptAfter(scanStream, ghToken, o)])
          /\ collected' =
                IF o = "ok"
                THEN collected \o Pushed(scanStream,
                                         ResultOf(scanStream, queryIdx),
                                         queryIdx)
                ELSE collected
          /\ IF LoopContinues(scanStream, o) /\ queryIdx < MaxQueries
             THEN queryIdx' = queryIdx + 1 /\ spc' = "loop"
             ELSE queryIdx' = queryIdx /\ spc' = "cluster"
    /\ UNCHANGED <<scanStream, ghToken, scanOut>>
    /\ UNCHANGED <<fnVars, aggVars, runVars, ideaVars, termVars>>

\* the loop is over: the scan result is built from what was collected
FinishScan ==
    /\ spc = "cluster"
    /\ scanOut' = ScanResultOf(scanStream, collected)
    /\ spc' = "done"
    /\ UNCHANGED <<scanStream, ghToken, queryIdx, issued, collected>>
    /\ UNCHANGED <<fnVars, aggVars, runVars, ideaVars, termVars>>

NextScan == ScanQuery \/ FinishScan

SpecScan == InitScan /\ [][NextScan]_vars

\* the items the successful queries among the first n issued have pushed
RECURSIVE PushedByOk(_)
PushedByOk(n) ==
    IF n = 0 THEN <<>>
    ELSE PushedByOk(n - 1) \o
         (IF issued[n].outcome = "ok"
          THEN Pushed(scanStream, ResultOf(scanStream, issued[n].query),
                      issued[n].query)
          ELSE <<>>)

IdsOf(items) == {items[k].id : k \in DOMAIN items}

Scanning == spc \in {"loop", "cluster", "done"}

\* C17: in the fetch loops of scanGitHub and scanX the queries are issued
\* in order; a failure that is no rate-limit signal does not end the loop
\* (the loop ends only after the last query or on a rate-limit signal);
\* after a rate-limit signal (403 / code 429) no further query is issued;
\* and what the successful queries collected is what deduplication and
\* clustering receive: the scan result holds each collected id once
\* (for scanGitHub: each that passes the description filter).
C17_FetchLoopSurvivesFailures ==
    Scanning =>
       LET n == Len(issued) IN
       /\ \A k \in 1..n : issued[k].query = k
       /\ \A k \in 1..(n - 1) : issued[k].outcome # "rate_limit"
       /\ spc \in {"cluster", "done"} =>
             n = MaxQueries \/ issued[n].outcome = "rate_limit"
       /\ collected = PushedByOk(n)
       /\ spc = "done" =>
             /\ IdsOf(scanOut.items) =
                   {collected[k].id : k \in
                       {j \in DOMAIN collected :
                           scanStream = "x" \/ KeepRepo(collected[j])}}
             /\ Cardinality(IdsOf(scanOut.items)) = Len(scanOut.items)

\* a successful query, then a failed one, then a rate-limited one that ends
\* the loop before the last query; the scan result holds the items of the
\* first
C17_Witness ==
    /\ spc = "done"
    /\ Len(issued) = 3
    /\ Len(issued) < MaxQueries
    /\ issued[1].outcome = "ok"
    /\ issued[2].outcome \in {"throws", "http_error"}
    /\ issued[3].outcome = "rate_limit"
    /\ scanOut.items # <<>>
    /\ scanOut.topicClusters # <<>>

Descending(ns) ==
    \A k \in 1..(Len(ns) - 1) : ns[k] >= ns[k + 1]

\* C18 as stated: both clusterers return the clusters sorted descending by
\* count * weight + total: tweetCount * 10 + totalEngagement for the
\* social stream, repoCount * 5 + totalStars for the developer stream.
C18_SortedByTotal ==
    spc = "done" =>
       LET cs == scanOut.topicClusters IN
       Descending([k \in DOMAIN cs |->
                     IF scanStream = "x"
                     THEN cs[k].tweetCount * 10 + cs[k].totalEngagement
                     ELSE cs[k].repoCount * 5 + cs[k].totalStars])

\* C18 (amended): both clusterers return the clusters sorted descending by
\* tweetCount * 10 + avgEngagement (the rounded average engagement of the
\* cluster) for the social stream, and by repoCount * 5 + totalStars for
\* the developer stream.
C18_SortedByStrength ==
    spc = "done" =>
       LET cs == scanOut.topicClusters IN
       Descending([k \in DOMAIN cs |->
                     IF scanStream = "x"
                     THEN cs[k].tweetCount * 10 + cs[k].avgEngagement
                     ELSE cs[k].repoCount * 5 + cs[k].totalStars])

\* social clusters that the sort has reordered, and that are not in the
\* order of count * 10 + total engagement
C18_Witness ==
    /\ spc = "done"
    /\ scanStream = "x"
    /\ Len(scanOut.topicClusters) >= 3
    /\ scanOut.topicClusters # BuildClusters("x", scanOut.items, 1)
    /\ \E k \in 1..(Len(scanOut.topicClusters) - 1) :
          LET a == scanOut.topicClusters[k]
              b == scanOut.topicClusters[k + 1]
          IN  /\ a.tweetCount * 10 + a.avgEngagement
                   > b.tweetCount * 10 + b.avgEngagement
              /\ a.tweetCount * 10 + a.totalEngagement
                   < b.tweetCount * 10 + b.totalEngagement

\* developer clusters that the sort has reordered
C18_ReposReordered ==
    /\ spc = "done"
    /\ scanStream = "gh"
    /\ Len(scanOut.topicClusters) >= 2
    /\ scanOut.topicClusters # BuildClusters("gh", scanOut.items, 1)

\* the number of clusters returned for a topic
ClustersFor(topic) ==
    Cardinality({k \in DOMAIN scanOut.topicClusters :
                    scanOut.topicClusters[k].topic = topic})

\* the items of the scan result that match a topic
MatchingItems(topic) ==
    {k \in DOMAIN scanOut.items : Matches(scanStream, topic, scanOut.items[k])}

ClusterCount(c) == IF scanStream = "x" THEN c.tweetCount ELSE c.repoCount

\* C21: both clusterers emit a cluster for a topic only when an item matches
\* it: every returned cluster is of a topic of the pattern table and has a
\* count of at least 1, equal to the number of items matching the topic; a
\* topic has one cluster when an item matches it and none otherwise; an
\* item matching several topics is counted in each.
C21_OneClusterPerMatchedTopic ==
    spc = "done" =>
       LET topics == {TopicsOf(scanStream)[k] :
                         k \in DOMAIN TopicsOf(scanStream)}
       IN  /\ \A k \in DOMAIN scanOut.topicClusters :
                LET c == scanOut.topicClusters[k] IN
                /\ c.topic \in topics
                /\ ClusterCount(c) >= 1
                /\ ClusterCount(c) = Cardinality(MatchingItems(c.topic))
           /\ \A t \in topics :
                ClustersFor(t) = IF MatchingItems(t) = {} THEN 0 ELSE 1

\* a scan result with an item counted in two clusters, and a topic of the
\* table that no item matches
C21_Witness ==
    /\ spc = "done"
    /\ \E k \in DOMAIN scanOut.items :
          \E a, b \in DOMAIN scanOut.topicClusters :
             /\ a # b
             /\ Matches(scanStream, scanOut.topicClusters[a].topic,
                        scanOut.items[k])
             /\ Matches(scanStream, scanOut.topicClusters[b].topic,
                        scanOut.items[k])
             /\ ClusterCount(scanOut.topicClusters[a]) >= 2
    /\ \E k \in DOMAIN TopicsOf(scanStream) :
          ClustersFor(TopicsOf(scanStream)[k]) = 0

(***************************************************************************)
(* aggregateSignals on cluster sets that the scanners do not produce:      *)
(* parsed from cached scan files or handed in by another caller            *)
(***************************************************************************)
\* a developer cluster whose topic is the empty string
GEmptyTopic ==
    [topic |-> "", repoCount |-> 8,
     totalStars |-> 40, avgStars |-> R(5),
     topRepos |-> << Repo("o7/r7", 50, 25), Repo("o8/r8", 20, 15) >>,
     keyTerms |-> <<"bridge">>]

\* a cluster of the conversion script with many tweets of high engagement
XConvertedHot ==
    [topic |-> "Privacy & Confidential Computing", tweetCount |-> 10,
     avgEngagement |-> 600, totalEngagement |-> 6000,
     topTweets |-> << Tweet(100, "a7", 900, "t8") >>,
     keyTerms |-> <<"privacy">>]

EdgeXInputs == {XWeak, XConverted, XConvertedHot}
EdgeGHInputs == {GStrong, GWeak, GEmptyTopic}

InitEdge ==
    /\ ExtIdle
    /\ xResult \in {[topicClusters |-> a] : a \in Arrangements(EdgeXInputs)}
    /\ ghResult \in {[topicClusters |-> a] : a \in Arrangements(EdgeGHInputs)}
    /\ AllExactlyModelled(xResult, ghResult) = TRUE
    /\ now = 0
    /\ results = <<>>
    /\ FnIdle

SpecEdge == InitEdge /\ [][Next]_vars

CrossChain == TOPIC_ALIGNMENT[7]

\* C22: a lookup against an empty-string topic never matches: for the
\* 'Cross-chain' entry aggregateSignals builds the all-zero developer
\* snapshot with empty lists, for every developer cluster set, one holding
\* a cluster whose topic is the empty string included.
C22_EmptyTopicNeverMatches ==
    /\ CrossChain.name = "Cross-chain" /\ CrossChain.gh = ""
    /\ results # <<>> =>
          /\ EntryDeveloper(CrossChain, ghResult) = DeveloperOf(<<>>, 0)
          /\ \A r \in DOMAIN results :
                \A k \in DOMAIN results[r].narratives :
                   results[r].narratives[k].name = "Cross-chain" =>
                      results[r].narratives[k].signals.developer
                         = DeveloperOf(<<>>, 0)

\* a report whose 'Cross-chain' narrative carries the repos of the cluster
\* with the empty topic
C22_EmptyTopicMatched ==
    /\ results # <<>>
    /\ \E k \in DOMAIN ghResult.topicClusters :
          ghResult.topicClusters[k].topic = ""
    /\ \E k \in DOMAIN results[1].narratives :
          /\ results[1].narratives[k].name = "Cross-chain"
          /\ results[1].narratives[k].signals.developer.repoCount = 8
          /\ results[1].narratives[k].signals.developer.topRepos # <<>>

\* the lookup does not match when no cluster has the empty topic
C22_NoEmptyTopicNoMatch ==
    /\ results # <<>>
    /\ \A k \in DOMAIN ghResult.topicClusters :
          ghResult.topicClusters[k].topic # ""
    => EntryDeveloper(CrossChain, ghResult) = DeveloperOf(<<>>, 0)

(***************************************************************************)
(* The cross-source term (checked under SpecFn)                            *)
(***************************************************************************)
BothStreams == social.tweetCount > 0 /\ developer.repoCount > 0

\* C23: a narrative that appears in both social discussion and developer
\* activity (tweetCount > 0 and repoCount > 0) receives a 15-point signal
\* boost: the cross-source term added to its score is 15.
C23_FifteenPointBoost ==
    (JustScored /\ BothStreams) => crossSourceBonus(social, developer) = 15

\* a narrative in both streams whose cross-source term is 20, and whose
\* score is 20 above the rounded sum of its two stream scores
C23_TwentyPointBoost ==
    /\ JustScored
    /\ BothStreams
    /\ crossSourceBonus(social, developer) = 20
    /\ signalScore < 100
    /\ signalScore
          = RRound(RAdd(socialScore(social), devScore(developer))) + 20

\* C24: narratives with both streams score higher than single-stream ones:
\* for every social snapshot with tweetCount > 0 and developer snapshot
\* with repoCount > 0, computeSignalScore of the pair is strictly greater
\* than the score of the social snapshot with the all-zero developer
\* snapshot and than the score of the developer snapshot with the all-zero
\* social snapshot.
C24_BothStreamsScoreHigher ==
    (JustScored /\ BothStreams) =>
       /\ signalScore > computeSignalScore(social, DeveloperOf(<<>>, 0))
       /\ signalScore > computeSignalScore(SocialOf(<<>>, 0), developer)

\* a pair of saturated snapshots: each stream alone scores 40, the pair 100
C24_Witness ==
    /\ JustScored
    /\ BothStreams
    /\ computeSignalScore(social, DeveloperOf(<<>>, 0)) = 40
    /\ computeSignalScore(SocialOf(<<>>, 0), developer) = 40
    /\ signalScore = 100

\* likes + 2 * retweets + 1.5 * replies, in halves
WeightedEngagement(t) == Rat(2 * t.likes + 4 * t.retweets + 3 * t.replies, 2)

\* the tweets the successful queries returned
ReturnedTweets ==
    UNION {{ResultOf("x", issued[k].query)[j] :
               j \in DOMAIN ResultOf("x", issued[k].query)} :
           k \in {i \in DOMAIN issued : issued[i].outcome = "ok"}}

\* C25: every signal in the result of scanX has engagementScore >= 20,
\* where engagementScore = likes + 2 * retweets + 1.5 * replies; a tweet
\* below that threshold is part neither of signals nor of a cluster.
C25_EngagementThreshold ==
    (spc = "done" /\ scanStream = "x") =>
       /\ \A k \in DOMAIN scanOut.items :
             /\ scanOut.items[k].engagementScore
                   = WeightedEngagement(scanOut.items[k])
             /\ RLeq(R(20), scanOut.items[k].engagementScore)
       /\ \A c \in DOMAIN scanOut.topicClusters :
             \A k \in DOMAIN scanOut.topicClusters[c].topTweets :
                RLeq(R(20),
                     WeightedEngagement(scanOut.topicClusters[c].topTweets[k]))
       /\ \A t \in ReturnedTweets :
             (t.metrics /\ RLt(computeEngagement(t.likes, t.rts, t.replies),
                               R(20)))
                => /\ t.id \notin IdsOf(scanOut.items)
                   /\ \A c \in DOMAIN scanOut.topicClusters :
                         t.id \notin IdsOf(scanOut.topicClusters[c].topTweets)

\* a scan that returned a tweet at 18.5 and a tweet at exactly 20: the
\* second is a signal and in a cluster, the first is not
C25_Witness ==
    /\ spc = "done"
    /\ scanStream = "x"
    /\ \E t \in ReturnedTweets :
          t.metrics /\ computeEngagement(t.likes, t.rts, t.replies)
                          = Rat(37, 2)
    /\ \E k \in DOMAIN scanOut.items :
          /\ scanOut.items[k].engagementScore = R(20)
          /\ \E c \in DOMAIN scanOut.topicClusters :
                scanOut.items[k].id
                   \in IdsOf(scanOut.topicClusters[c].topTweets)

\* C26: request pacing: in the fetch loops of scanGitHub and scanX every
\* request after the first is issued only after the pacing delay that
\* follows the previous request has elapsed, whatever the outcome (success,
\* non-OK response, thrown error) of the previous request.
C26_EveryRequestPaced ==
    Scanning =>
       \A k \in 2..Len(issued) :
          issued[k - 1].slept = PacingDelay(scanStream, ghToken)

\* a request issued with no delay after a failed one
C26_UnpacedAfterFailure ==
    /\ Scanning
    /\ \E k \in 2..Len(issued) :
          /\ issued[k - 1].outcome \in {"http_error", "throws"}
          /\ issued[k - 1].slept = 0
          /\ issued[k].query = issued[k - 1].query + 1

\* the delay is awaited after every successful request, and after no other
C26_PacedAfterSuccessOnly ==
    Scanning =>
       \A k \in DOMAIN issued :
          issued[k].slept = IF issued[k].outcome = "ok"
                            THEN (IF scanStream = "gh" /\ ~ghToken
                                  THEN 6500 ELSE 200)
                            ELSE 0

(***************************************************************************)
(* The runner after the synthesis step (checked under SpecRun)             *)
(***************************************************************************)
AfterSynthesis == rpc \in {"write", "done"}

\* C27: after the runner's synthesis step every narrative in the report
\* carries between 1 and 5 build-idea records, whatever the external
\* summarizer returned (valid JSON with ideas, valid JSON without a
\* build_ideas field, unparsable text, or an error).
C27_OneToFiveIdeasAfterSynthesis ==
    AfterSynthesis =>
       \A k \in DOMAIN report.narratives :
          Len(report.narratives[k].buildIdeas) \in 1..5

\* a finished run whose first answer was valid JSON without a build_ideas
\* field: the narrative is written out with no build idea
C27_NoIdeasWritten ==
    /\ rpc = "done"
    /\ responses[1].kind = "text"
    /\ responses[1].wrapper = "bare"
    /\ "build_ideas" \notin DOMAIN responses[1].payload
    /\ report.narratives[1].buildIdeas = <<>>
    /\ files["narratives.json"].narratives[1].buildIdeas = <<>>

\* a failed call leaves the narrative its rule-based build ideas
C27_IdeasKeptOnFailure ==
    AfterSynthesis =>
       \A k \in DOMAIN report.narratives :
          Failed(responses[k]) =>
             report.narratives[k].buildIdeas = RuleBased[k].buildIdeas

\* C28: the synthesis step changes only the explanation and the buildIdeas
\* of each narrative: the set and order of the narratives, and the name,
\* signalScore, stage, confidence and signals of each, are after the step
\* what they were before it, whether each call succeeds or fails; the
\* other fields of the report are unchanged as well.
C28_SynthesisFrame ==
    LET rb == RuleBased IN
    rpc \in {"synth", "write", "done"} =>
       /\ DOMAIN report.narratives = DOMAIN rb
       /\ \A k \in DOMAIN rb :
             LET n == report.narratives[k] IN
             /\ DOMAIN n = DOMAIN rb[k]
             /\ n.name = rb[k].name
             /\ n.signalScore = rb[k].signalScore
             /\ n.stage = rb[k].stage
             /\ n.confidence = rb[k].confidence
             /\ n.signals = rb[k].signals
       /\ report.period = aggregateSignals(xResult, ghResult, 0, 0, 0).period
       /\ report.methodology = METHODOLOGY
       /\ rpc = "synth" => report.narratives = rb

\* a finished run with a failed and a successful call: the second
\* narrative has the explanation and ideas of the answer, and the rest of
\* it as before
C28_Witness ==
    /\ rpc = "done"
    /\ Len(responses) >= 2
    /\ Failed(responses[1])
    /\ responses[2].kind = "text" /\ responses[2].wrapper = "prose"
    /\ report.narratives[1] = RuleBased[1]
    /\ report.narratives[2] # RuleBased[2]
    /\ report.narratives[2].buildIdeas # RuleBased[2].buildIdeas
    /\ report.narratives[2].signals = RuleBased[2].signals

\* C29: the runner process always terminates: the hard timer armed at the
\* start exits the process with code 0 when it fires, whatever step the
\* pipeline is in, also after main() has returned and the HTTP server has
\* been started with --serve.
C29_AlwaysTerminates ==
    /\ <>(exitCode # -1)
    /\ [](rpc = "exited" => exitCode = 0)
    /\ [](exitCode # -1 => rpc \in {"exited", "failed", "crashed"})

\* the timer ended the process after the server had been started
C29_Witness ==
    /\ rpc = "exited"
    /\ exitCode = 0
    /\ serve
    /\ server
    /\ DOMAIN files = {"narratives.json", "index.html", "api.json"}

\* the social cluster a narrative of the report was built from, as an
\* index into the cluster list, 0 when there was none
SocialClusterOf(n) ==
    FindCluster(xResult.topicClusters, TOPIC_ALIGNMENT[AlignmentIndex(n.name)].x)

FromConvertedCluster(n) ==
    /\ SocialClusterOf(n) # 0
    /\ "uniqueAuthors" \notin DOMAIN xResult.topicClusters[SocialClusterOf(n)]

\* C30: for a social cluster of the conversion script, which carries no
\* uniqueAuthors field, aggregateSignals puts uniqueAuthors = 0 into the
\* snapshot; the diversity bonus of such a narrative is 0 and its stage is
\* never peak, whatever its tweet count and engagement.
C30_ConvertedNeverPeak ==
    \A r \in DOMAIN results :
       \A k \in DOMAIN results[r].narratives :
          LET n == results[r].narratives[k] IN
          FromConvertedCluster(n) =>
             /\ n.signals.social.uniqueAuthors = 0
             /\ diversityBonus(n.signals.social) = R(0)
             /\ n.stage # "peak"

\* a narrative built from a converted cluster of 10 tweets at an average
\* engagement of 600, next to a strong developer cluster: every other
\* condition of the peak rule holds, the stage is acceleration
C30_Witness ==
    /\ results # <<>>
    /\ \E k \in DOMAIN results[1].narratives :
          LET n == results[1].narratives[k] IN
          /\ FromConvertedCluster(n)
          /\ n.signals.social.tweetCount = 10
          /\ n.signals.social.avgEngagement = 600
          /\ hasStrongDev(n.signals.developer)
          /\ n.stage = "acceleration"

====
